---- MODULE Spec2Model ----
(***************************************************************************)
(* Model of the pattern-matching / composition engine of                   *)
(* cytoskeleton_analyser.history: the filament event streams               *)
(* (FilamentHistory), the pattern matchers and their occurrence sets       *)
(* (_StateSequence, Single, Double, Triple), the union operator and the    *)
(* category catalog (EventCollections).                                    *)
(*                                                                         *)
(* numpy arrays are sequences; Python indices are 0-based and are used as  *)
(* such in every stored index (fi, inds).  Floating-point values are       *)
(* modelled by integers and exact rationals <<numerator, denominator>>;    *)
(* the standard deviation of a Stats is represented by its square (the     *)
(* variance), which determines it.  An exception raised by the code is a   *)
(* value [exc |-> <name>] returned in place of the result.                 *)
(***************************************************************************)
EXTENDS Integers, Sequences, FiniteSets, Bags, TLC

\* ---------------------------------------------------------------- bounds
MaxLen == 4
MaxDt == 1
MaxDist == 1
EdgeLen == 2

\* ------------------------------------------------------------- utilities
\* NaN: no rational (a Stats field is a rational <<n, d>> with d > 0, or NaN).
NaN == <<0, 0>>
isnan(x) == x = NaN

\* A region limit: a finite distance, or np.Inf.
Fin(x) == <<0, x>>
Inf == <<1, 0>>
GeLim(x, b) == b[1] = 0 /\ x >= b[2]
LtLim(x, b) == b[1] = 1 \/ x < b[2]

Min(a, b) == IF a < b THEN a ELSE b
Max(a, b) == IF a > b THEN a ELSE b
Abs(a) == IF a < 0 THEN -a ELSE a

\* An exception raised in place of an object: objects are records, so the two
\* are told apart by the field.
Raise(name) == [exc |-> name]
IsExc(v) == "exc" \in DOMAIN v

RECURSIVE GCD(_, _)
GCD(a, b) == IF b = 0 THEN a ELSE GCD(b, a % b)

\* An exact rational, normalised: positive denominator, lowest terms.
Rat(n, d) ==
    LET g == GCD(Abs(n), Abs(d))
        s == IF d < 0 THEN -1 ELSE 1
    IN  <<(s * n) \div g, (s * d) \div g>>
RatAdd(p, q) == Rat(p[1] * q[2] + q[1] * p[2], p[2] * q[2])
RatSub(p, q) == Rat(p[1] * q[2] - q[1] * p[2], p[2] * q[2])
RatMul(p, q) == Rat(p[1] * q[1], p[2] * q[2])
RatDiv(p, q) == Rat(p[1] * q[2], p[2] * q[1])
RatInt(n) == <<n, 1>>

RECURSIVE RatSum(_)
RatSum(xs) == IF xs = <<>> THEN RatInt(0) ELSE RatAdd(Head(xs), RatSum(Tail(xs)))

\* ndarray.mean() and the square of ndarray.std() of a non-empty array of
\* rationals.
RatMean(xs) == RatDiv(RatSum(xs), RatInt(Len(xs)))
RatVar(xs) ==
    LET m == RatMean(xs)
    IN  RatSub(RatMean([k \in 1..Len(xs) |-> RatMul(xs[k], xs[k])]), RatMul(m, m))
Rats(xs) == [k \in 1..Len(xs) |-> RatInt(xs[k])]

\* Python's a[start:stop] on a sequence, for integer bounds: a negative
\* bound counts from the end, and both are clamped to the sequence.
PySlice(a, start, stop) ==
    LET n == Len(a)
        lo == IF start < 0 THEN Max(n + start, 0) ELSE Min(start, n)
        hi == IF stop < 0 THEN Max(n + stop, 0) ELSE Min(stop, n)
    IN  SubSeq(a, lo + 1, hi)
\* a[:stop]
PySliceTo(a, stop) == PySlice(a, 0, stop)

\* a[ii] for an index array ii (0-based); numpy raises IndexError for an index
\* past the end, which the callers test with InRange before taking.
InRange(a, ii) == \A k \in 1..Len(ii) : 0 <= ii[k] /\ ii[k] < Len(a)
Take(a, ii) == [k \in 1..Len(ii) |-> a[ii[k] + 1]]
Shift(ii, s) == [k \in 1..Len(ii) |-> ii[k] + s]

\* A boolean array, or the ValueError of an elementwise operation on arrays
\* whose shapes cannot be broadcast together.
Arr(v) == [err |-> FALSE, v |-> v]
ArrErr == [err |-> TRUE, v |-> <<>>]

\* Elementwise a & b of two boolean arrays, with numpy broadcasting.
MaskAnd(a, b) ==
    IF a.err \/ b.err THEN ArrErr
    ELSE IF Len(a.v) = Len(b.v) THEN Arr([k \in 1..Len(a.v) |-> a.v[k] /\ b.v[k]])
    ELSE IF Len(a.v) = 1 THEN Arr([k \in 1..Len(b.v) |-> a.v[1] /\ b.v[k]])
    ELSE IF Len(b.v) = 1 THEN Arr([k \in 1..Len(a.v) |-> a.v[k] /\ b.v[1]])
    ELSE ArrErr

\* np.where(mask)[0]: the 0-based indices at which the mask holds, ascending.
RECURSIVE WhereFrom(_, _)
WhereFrom(mask, k) ==
    IF k > Len(mask) THEN <<>>
    ELSE (IF mask[k] THEN <<k - 1>> ELSE <<>>) \o WhereFrom(mask, k + 1)
Where(mask) == IF mask.err THEN ArrErr ELSE Arr(WhereFrom(mask.v, 1))

\* ------------------------------------------------------------ StateTypes
O == -1
G == 0
S == 1
P == 2
C == 3
D == 4

Letters == {"o", "g", "s", "p", "c", "d"}

\* str.upper() of one letter.  The long s (U+017F), written here by its code
\* point, is the one letter besides the twelve whose capital names a state.
Upper(ch) ==
    CASE ch = "o" -> "O" [] ch = "g" -> "G" [] ch = "s" -> "S"
      [] ch = "p" -> "P" [] ch = "c" -> "C" [] ch = "d" -> "D"
      [] ch = "x" -> "X" [] ch = "U+017F" -> "S"
      [] OTHER -> ch
\* The states StateTypes.__dict__ holds, by attribute name.
StateNames == {"O", "G", "S", "P", "C", "D"}

\* StateTypes.from_str: the code of every letter of a pattern string (a
\* sequence of one-letter strings), cls.__dict__[s.upper()]; KeyError for a
\* letter that names no state.
CodeOf(ch) ==
    CASE Upper(ch) = "O" -> O [] Upper(ch) = "G" -> G [] Upper(ch) = "S" -> S
      [] Upper(ch) = "P" -> P [] Upper(ch) = "C" -> C [] Upper(ch) = "D" -> D
from_strMutUnknownAsO(ss) ==
    Arr([k \in 1..Len(ss) |->
           IF Upper(ss[k]) \in StateNames THEN CodeOf(ss[k]) ELSE O])
from_str(ss) ==
    IF \E k \in 1..Len(ss) : Upper(ss[k]) \notin StateNames
    THEN ArrErr
    ELSE Arr([k \in 1..Len(ss) |-> CodeOf(ss[k])])

name(k) ==
    IF k = G THEN "growth" ELSE IF k = S THEN "shrink"
    ELSE IF k = P THEN "pause" ELSE IF k = C THEN "connect"
    ELSE IF k = D THEN "depol" ELSE "undef"

name_short(k) ==
    IF k = G THEN "g" ELSE IF k = S THEN "s"
    ELSE IF k = P THEN "p" ELSE IF k = C THEN "c"
    ELSE IF k = D THEN "d" ELSE "o"

\* -------------------------------------------------------- FilamentHistory
\* The fields of one filament's event stream, as FilamentHistory.__init__
\* declares them for the record format `version`; every array has numrec
\* entries.  read() derives dist0 from pos: the norm of the xy components.
StreamFields(version) ==
    {"numrec", "time", "state_fr", "state_to", "pos", "length",
     "cas", "dist_plm", "dist_nuc", "dist0"}
    \cup (IF version = 2 THEN {"ornt", "ngrw", "nshr"} ELSE {})

\* np.linalg.norm(pos[:, :2], axis=1) for a position on the x axis.
Norm2(p) == Abs(p[1])

\* ---------------------------------------------------------- _StateSequence
DataKeysV2 == <<"ngrw", "nshr", "dngrw", "dnshr", "dornt">>
DataKeysCommon ==
    <<"dlen", "dlen_um", "dtime", "vel", "length", "time", "pos_fr", "pos_to",
      "dist0_fr", "dist0_to", "dist_plm", "dist_nuc", "cas">>
StatKeys == <<"_duration", "_elongation", "_reorientation", "_velocity">>

\* The instance attributes that hold a numpy array.
ArrayKeys ==
    {"fi", "inds"} \cup {DataKeysV2[k] : k \in 1..Len(DataKeysV2)}
    \cup {DataKeysCommon[k] : k \in 1..Len(DataKeysCommon)}

Stats(avg, std, units) == [avg |-> avg, std |-> std, units |-> units]

\* _StateSequence.__init__: the attributes it creates, in creation order
\* (the order of vars(self)), after the pattern attributes `pat` the subclass
\* has set; all arrays empty, all cached statistics NaN.
BaseInit(cls, width, patkeys, codes, PARAMS) ==
    LET vars == patkeys \o <<"fi", "inds">>
                \o (IF PARAMS.history_version = 2 THEN DataKeysV2 ELSE <<>>)
                \o DataKeysCommon \o StatKeys
    IN  [cls |-> cls, WIDTH |-> width, vars |-> vars,
         a |-> [k \in {vars[i] : i \in 1..Len(vars)} |->
                  IF k \in ArrayKeys THEN <<>>
                  ELSE IF \E i \in 1..Len(patkeys) : patkeys[i] = k
                       THEN codes[CHOOSE i \in 1..Len(patkeys) : patkeys[i] = k]
                  ELSE Stats(NaN, NaN, "")]]

HasAttr(self, k) == k \in DOMAIN self.a

\* The angle in degrees between two of the unit vectors of the model:
\* arccos(clip(dot, -1, 1)) / pi * 180.
Dot(u, v) == u[1] * v[1] + u[2] * v[2] + u[3] * v[3]
Clip(x, lo, hi) == Min(Max(x, lo), hi)
ArccosDeg(x) == CASE x = 1 -> 0 [] x = 0 -> 90 [] x = -1 -> 180

\* np.divide(dlen_um, dtime, out=zeros, where=dtime != 0) * 60, one entry.
SafeVelMutNaN(dlen_um, dtime) ==
    IF dtime # 0 THEN RatMul(Rat(dlen_um, dtime), RatInt(60)) ELSE NaN
SafeVel(dlen_um, dtime) ==
    IF dtime # 0 THEN RatMul(Rat(dlen_um, dtime), RatInt(60)) ELSE RatInt(0)

\* The integer types of the length change.  The counters ngrw and nshr
\* are uint64: numpy takes their difference modulo 2^64, which is the
\* distance d of the operands, or 2^64 - d (wrapped) when the first is the
\* smaller.  np.int32 of such a difference keeps its low 32 bits as a
\* signed integer, and np.int32 of a uint32 length is the length when it
\* is below 2^31 and the length - 2^32 else.
MaxInt32 == 2147483647
U64Sub(a, b) ==
    IF a >= b THEN [wrapped |-> FALSE, d |-> a - b]
    ELSE [wrapped |-> TRUE, d |-> b - a]
Int32OfDiff(x) == IF x.wrapped THEN -x.d ELSE x.d
Int32OfLength(v) == IF v <= MaxInt32 THEN v ELSE (v - MaxInt32) - MaxInt32 - 2
\* The length change between the events i and k of r, in edges: of the
\* counters under history version 2, of the lengths else.
dlen_ofMutUnsignedLength(r, i, k, v2) ==
    IF v2
    THEN Int32OfDiff(U64Sub(r.ngrw[k + 1], r.ngrw[i + 1]))
         - Int32OfDiff(U64Sub(r.nshr[k + 1], r.nshr[i + 1]))
    ELSE U64Sub(r.length[k + 1], r.length[i + 1]).d
dlen_of(r, i, k, v2) ==
    IF v2
    THEN Int32OfDiff(U64Sub(r.ngrw[k + 1], r.ngrw[i + 1]))
         - Int32OfDiff(U64Sub(r.nshr[k + 1], r.nshr[i + 1]))
    ELSE Int32OfLength(r.length[k + 1]) - Int32OfLength(r.length[i + 1])

\* _StateSequence.append: the occurrences at indices ii of stream r (number
\* j) are appended to every array.  Reading r at ii + WIDTH raises
\* IndexError when an index lies past the end of the stream.
append(self, r, ii, j, PARAMS) ==
    LET s == self.WIDTH
        n == Len(ii)
        jj == Shift(ii, s)
        v2 == PARAMS.history_version = 2
        dngrw == [k \in 1..n |->
                    Int32OfDiff(U64Sub(r.ngrw[jj[k] + 1], r.ngrw[ii[k] + 1]))]
        dnshr == [k \in 1..n |->
                    Int32OfDiff(U64Sub(r.nshr[jj[k] + 1], r.nshr[ii[k] + 1]))]
        dlen == [k \in 1..n |-> dlen_of(r, ii[k], jj[k], v2)]
        dornt == [k \in 1..n |->
                    ArccosDeg(Clip(Dot(r.ornt[jj[k] + 1], r.ornt[ii[k] + 1]), -1, 1))]
        dlen_um == [k \in 1..n |-> dlen[k] * PARAMS.edge_len]
        dtime == [k \in 1..n |-> r.time[jj[k] + 1] - r.time[ii[k] + 1]]
        vel == [k \in 1..n |-> SafeVel(dlen_um[k], dtime[k])]
        new == [k \in DOMAIN self.a |->
                 CASE k = "inds" -> self.a[k] \o ii
                   [] k = "fi" -> self.a[k] \o [i \in 1..n |-> j]
                   [] k = "ngrw" /\ v2 -> self.a[k] \o Take(r.ngrw, ii)
                   [] k = "nshr" /\ v2 -> self.a[k] \o Take(r.nshr, ii)
                   [] k = "dngrw" /\ v2 -> self.a[k] \o dngrw
                   [] k = "dnshr" /\ v2 -> self.a[k] \o dnshr
                   [] k = "dornt" /\ v2 -> self.a[k] \o dornt
                   [] k = "dlen" -> self.a[k] \o dlen
                   [] k = "dlen_um" -> self.a[k] \o dlen_um
                   [] k = "dtime" -> self.a[k] \o dtime
                   [] k = "vel" -> self.a[k] \o vel
                   [] k = "length" -> self.a[k] \o Take(r.length, ii)
                   [] k = "time" -> self.a[k] \o Take(r.time, ii)
                   [] k = "pos_fr" -> self.a[k] \o Take(r.pos, ii)
                   [] k = "pos_to" -> self.a[k] \o Take(r.pos, jj)
                   [] k = "dist0_fr" -> self.a[k] \o Take(r.dist0, ii)
                   [] k = "dist0_to" -> self.a[k] \o Take(r.dist0, jj)
                   [] k = "dist_plm" -> self.a[k] \o Take(r.dist_plm, ii)
                   [] k = "dist_nuc" -> self.a[k] \o Take(r.dist_nuc, ii)
                   [] k = "cas" -> self.a[k] \o Take(r.cas, ii)
                   [] OTHER -> self.a[k]]
    IN  IF ~InRange(r.time, ii) \/ ~InRange(r.time, jj)
        THEN Raise("IndexError")
        ELSE [self EXCEPT !.a = new]

\* The attributes vars(self).keys()[DATA_INDS] names.
Single_DATA_INDS == <<2, -4>>
Double_DATA_INDS == <<3, -4>>
Triple_DATA_INDS == <<4, -4>>
DATA_INDS(cls) ==
    CASE cls = "Single" -> Single_DATA_INDS
      [] cls = "Double" -> Double_DATA_INDS
      [] cls = "Triple" -> Triple_DATA_INDS
DataKeysMutFromInds(self) ==
    LET ks == PySlice(self.vars, DATA_INDS(self.cls)[1] + 1, DATA_INDS(self.cls)[2])
    IN  {ks[i] : i \in 1..Len(ks)}
DataKeys(self) ==
    LET ks == PySlice(self.vars, DATA_INDS(self.cls)[1], DATA_INDS(self.cls)[2])
    IN  {ks[i] : i \in 1..Len(ks)}

\* _StateSequence.remove_instantaneous: every attribute of the data slice is
\* reduced to the entries whose dtime is not (numerically, with atol = 0:
\* exactly) zero.  Indexing an attribute that is no array raises TypeError.
NotNullMutKeepAll(dtime) == [k \in 1..Len(dtime) |-> k - 1]
NotNull(dtime) == WhereFrom([k \in 1..Len(dtime) |-> dtime[k] # 0], 1)
remove_instantaneous(self) ==
    LET inds_not_null == NotNull(self.a.dtime)
        ks == DataKeys(self)
    IN  IF IsExc(self) THEN self
        ELSE IF \E k \in ks : k \notin ArrayKeys
        THEN Raise("TypeError")
        ELSE [self EXCEPT !.a = [k \in DOMAIN self.a |->
                 IF k \in ks THEN Take(self.a[k], inds_not_null) ELSE self.a[k]]]

\* _StateSequence.num
num(self) == Len(self.a.time)

\* _StateSequence.stack_attributes: the data arrays of self and of other,
\* concatenated, are set on new.  getattr(other, k) raises AttributeError
\* for an attribute other does not have.
stack_attributesMutThisOnly(self, other, new) ==
    [new EXCEPT !.a = [k \in DOMAIN new.a |->
        IF k \in DataKeys(self) THEN self.a[k] ELSE new.a[k]]]
stack_attributes(self, other, new) ==
    LET ks == DataKeys(self)
    IN  IF \E k \in ks : ~HasAttr(other, k)
        THEN Raise("AttributeError")
        ELSE IF \E k \in ks : k \notin ArrayKeys
        THEN Raise("AttributeError")
        ELSE [new EXCEPT !.a = [k \in DOMAIN new.a \cup ks |->
                 IF k \in ks THEN self.a[k] \o other.a[k] ELSE new.a[k]],
                         !.vars = new.vars \o
                             SelectSeq(PySlice(self.vars, DATA_INDS(self.cls)[1],
                                               DATA_INDS(self.cls)[2]),
                                       LAMBDA k : ~HasAttr(new, k))]

\* -------------------------------------------------- Single, Double, Triple
EqArr(a, c) == Arr([k \in 1..Len(a) |-> a[k] = c])
GeArr(a, b) == Arr([k \in 1..Len(a) |-> GeLim(a[k], b)])
LtArr(a, b) == Arr([k \in 1..Len(a) |-> LtLim(a[k], b)])

\* The default of the optional argument dist_lim (<<>> stands for None).
NoLim == <<>>
DistLim(dist_lim) == IF dist_lim = NoLim THEN <<Fin(0), Inf>> ELSE dist_lim

\* Single.__init__, Double.__init__, Triple.__init__: the pattern codes are
\* unpacked from StateTypes.from_str(s), then the base class creates the
\* arrays.  from_str returns a generator: the unpacking draws WIDTH + 1
\* codes and asks for one more, so a letter that names no state raises
\* KeyError when it is among the first WIDTH + 2, and a string of another
\* length than WIDTH + 1 raises ValueError otherwise.  Nothing is assigned
\* before the unpacking has succeeded.
NewSeq(cls, width, patkeys, s, PARAMS) ==
    LET codes == from_str(PySliceTo(s, width + 2))
    IN  IF codes.err THEN Raise("KeyError")
        ELSE IF Len(s) # width + 1 THEN Raise("ValueError")
        ELSE BaseInit(cls, width, patkeys, codes.v, PARAMS)
Single(s, PARAMS) == NewSeq("Single", 1, <<"fr", "to">>, s, PARAMS)
Double(s, PARAMS) == NewSeq("Double", 2, <<"fr", "im", "to">>, s, PARAMS)
Triple(s, PARAMS) == NewSeq("Triple", 3, <<"fr", "im1", "im2", "to">>, s, PARAMS)

\* The mask of Single.set_from_records over the candidate indices of stream f.
SingleMaskMutNoSlice(self, f, lim) ==
    MaskAnd(MaskAnd(MaskAnd(
        EqArr(f.state_fr, self.a.fr),
        EqArr(f.state_to, self.a.to)),
        GeArr(f.dist0, lim[1])),
        LtArr(f.dist0, lim[2]))
SingleMaskMutOpenLow(self, f, lim) ==
    MaskAnd(MaskAnd(MaskAnd(MaskAnd(
        EqArr(PySliceTo(f.state_fr, -self.WIDTH), self.a.fr),
        EqArr(PySliceTo(f.state_to, -self.WIDTH), self.a.to)),
        GeArr(PySliceTo(f.dist0, -self.WIDTH), lim[1])),
        LtArr(PySliceTo(f.dist0, -self.WIDTH), lim[2])),
        Arr([k \in 1..Len(PySliceTo(f.dist0, -self.WIDTH)) |->
                Fin(PySliceTo(f.dist0, -self.WIDTH)[k]) # lim[1]]))
SingleMaskMutClosed(self, f, lim) ==
    MaskAnd(MaskAnd(
        EqArr(PySliceTo(f.state_fr, -self.WIDTH), self.a.fr),
        EqArr(PySliceTo(f.state_to, -self.WIDTH), self.a.to)),
        GeArr(PySliceTo(f.dist0, -self.WIDTH), lim[1]))
SingleMask(self, f, lim) ==
    MaskAnd(MaskAnd(MaskAnd(
        EqArr(PySliceTo(f.state_fr, -self.WIDTH), self.a.fr),
        EqArr(PySliceTo(f.state_to, -self.WIDTH), self.a.to)),
        GeArr(PySliceTo(f.dist0, -self.WIDTH), lim[1])),
        LtArr(PySliceTo(f.dist0, -self.WIDTH), lim[2]))

\* The mask of Double.set_from_records.
DoubleMask(self, f, lim) ==
    MaskAnd(MaskAnd(MaskAnd(MaskAnd(
        EqArr(PySliceTo(f.state_fr, -self.WIDTH), self.a.fr),
        EqArr(PySliceTo(f.state_to, -self.WIDTH), self.a.im)),
        EqArr(PySlice(f.state_to, self.WIDTH - 1, -(self.WIDTH - 1)), self.a.to)),
        GeArr(PySliceTo(f.dist0, -self.WIDTH), lim[1])),
        LtArr(PySliceTo(f.dist0, -self.WIDTH), lim[2]))

\* The mask of Triple.set_from_records; the region is set by the location
\* of the first event.
TripleMask(self, f, lim) ==
    MaskAnd(MaskAnd(MaskAnd(MaskAnd(MaskAnd(
        EqArr(PySliceTo(f.state_fr, -self.WIDTH), self.a.fr),
        EqArr(PySliceTo(f.state_to, -self.WIDTH), self.a.im1)),
        EqArr(PySlice(f.state_to, self.WIDTH - 2, -(self.WIDTH - 1)), self.a.im2)),
        EqArr(PySlice(f.state_to, self.WIDTH - 1, -(self.WIDTH - 2)), self.a.to)),
        GeArr(PySliceTo(f.dist0, -self.WIDTH), lim[1])),
        LtArr(PySliceTo(f.dist0, -self.WIDTH), lim[2]))

MaskOf(self, f, lim) ==
    CASE self.cls = "Single" -> SingleMask(self, f, lim)
      [] self.cls = "Double" -> DoubleMask(self, f, lim)
      [] self.cls = "Triple" -> TripleMask(self, f, lim)

\* One pass of the loop of set_from_records, over stream number j
\* (0-based): its matching indices are appended when there are any.
ScanStream(self, records, lim, j, PARAMS) ==
    IF IsExc(self) THEN self
    ELSE LET f == records[j + 1]
             isg == Where(MaskOf(self, f, lim))
         IN  IF isg.err THEN Raise("ValueError")
             ELSE IF isg.v = <<>> THEN self
             ELSE append(self, f, isg.v, j, PARAMS)

\* The loop of set_from_records over the streams from number j on.
RECURSIVE ScanFrom(_, _, _, _, _)
ScanFrom(self, records, lim, j, PARAMS) ==
    IF IsExc(self) \/ j >= Len(records) THEN self
    ELSE ScanFrom(ScanStream(self, records, lim, j, PARAMS),
                  records, lim, j + 1, PARAMS)

\* Single/Double/Triple.set_from_records: scan every stream, then remove
\* the instantaneous occurrences.
set_from_records(self, records, dist_lim, PARAMS) ==
    remove_instantaneous(ScanFrom(self, records, DistLim(dist_lim), 0, PARAMS))

\* Single.__or__: the data of self and other stacked into a new Single named
\* by 'o' and the final state of self.
Single__or__MutKeepFirst(self, other, PARAMS) ==
    stack_attributes(self, other,
        Single(<<name_short(self.a.fr), name_short(self.a.to)>>, PARAMS))
Single__or__(self, other, PARAMS) ==
    stack_attributes(self, other, Single(<<"o", name_short(self.a.to)>>, PARAMS))

\* Double.__or__: as Single.__or__, the new name keeping both phases.
Double__or__(self, other, PARAMS) ==
    stack_attributes(self, other,
        Double(<<"o", name_short(self.a.im), name_short(self.a.to)>>, PARAMS))

\* Triple.__or__
Triple__or__MutSwapped(self, other, PARAMS) ==
    stack_attributes(other, other,
        Triple(<<"o", name_short(self.a.im1), name_short(self.a.im2),
                 name_short(self.a.to)>>, PARAMS))
Triple__or__(self, other, PARAMS) ==
    stack_attributes(self, other,
        Triple(<<"o", name_short(self.a.im1), name_short(self.a.im2),
                 name_short(self.a.to)>>, PARAMS))

\* self | other: Python dispatches on the class of the left operand; an
\* operand that already is an exception propagates it.
Or(self, other, PARAMS) ==
    IF IsExc(self) THEN self
    ELSE IF IsExc(other) THEN other
    ELSE CASE self.cls = "Single" -> Single__or__(self, other, PARAMS)
           [] self.cls = "Double" -> Double__or__(self, other, PARAMS)
           [] self.cls = "Triple" -> Triple__or__(self, other, PARAMS)

\* ------------------------------------------------ the cached statistics
\* The setters of the properties duration, elongation, velocity and
\* reorientation: the Stats of the array when it has entries.
duration_setMutMidrange(self) ==
    IF Len(self.a.dtime) > 0
    THEN LET ds == {self.a.dtime[k] : k \in 1..Len(self.a.dtime)}
             lo == CHOOSE d \in ds : \A e \in ds : d <= e
             hi == CHOOSE d \in ds : \A e \in ds : d >= e
         IN  [self EXCEPT !.a._duration =
                 Stats(Rat(lo + hi, 2), RatVar(Rats(self.a.dtime)), "sec")]
    ELSE self
duration_set(self) ==
    IF Len(self.a.dtime) > 0
    THEN [self EXCEPT !.a._duration =
            Stats(RatMean(Rats(self.a.dtime)), RatVar(Rats(self.a.dtime)), "sec")]
    ELSE self
elongation_set(self) ==
    IF Len(self.a.dlen_um) > 0
    THEN [self EXCEPT !.a._elongation =
            Stats(RatMean(Rats(self.a.dlen_um)), RatVar(Rats(self.a.dlen_um)), "um")]
    ELSE self
velocity_set(self) ==
    IF Len(self.a.vel) > 0
    THEN [self EXCEPT !.a._velocity =
            Stats(RatMean(self.a.vel), RatVar(self.a.vel), "um/min")]
    ELSE self
reorientation_set(self) ==
    IF ~HasAttr(self, "dornt") THEN Raise("AttributeError")
    ELSE IF Len(self.a.dornt) > 0
    THEN [self EXCEPT !.a._reorientation =
            Stats(RatMean(Rats(self.a.dornt)), RatVar(Rats(self.a.dornt)), "grad")]
    ELSE self

Attrs == {"duration", "elongation", "velocity", "reorientation"}

\* The getter of property attr: the object after the read (the setter is
\* called while the cached average is NaN), or the exception it raises.
Getter(self, attr) ==
    CASE attr = "duration" ->
           IF isnan(self.a._duration.avg) THEN duration_set(self) ELSE self
      [] attr = "elongation" ->
           IF isnan(self.a._elongation.avg) THEN elongation_set(self) ELSE self
      [] attr = "velocity" ->
           IF isnan(self.a._velocity.avg) THEN velocity_set(self) ELSE self
      [] attr = "reorientation" ->
           IF isnan(self.a._reorientation.avg) THEN reorientation_set(self) ELSE self
\* The Stats the getter returns, read from the object after the read.
Cached(self, attr) ==
    CASE attr = "duration" -> self.a._duration
      [] attr = "elongation" -> self.a._elongation
      [] attr = "velocity" -> self.a._velocity
      [] attr = "reorientation" -> self.a._reorientation

\* --------------------------------------------------------- EventCollections
\* The fields of the namedtuples PureS, PureD and PureT, each name as the
\* sequence of its letters, in declaration order.
PureS ==
    << <<"s","g">>, <<"p","g">>, <<"g","s">>, <<"p","s">>, <<"g","p">>,
       <<"s","p">>, <<"c","s">>, <<"c","g">>, <<"g","d">>, <<"s","d">>,
       <<"p","d">> >>
PureD ==
    << <<"g","s","g">>, <<"p","s","g">>, <<"c","s","g">>, <<"g","p","s">>,
       <<"c","g","s">>, <<"c","g","p">>, <<"s","g","s">>, <<"p","g","s">>,
       <<"s","g","p">> >>
PureT == << <<"s","g","p","s">>, <<"c","g","p","s">> >>
Fields(tup) == {tup[k] : k \in 1..Len(tup)}

RegionNames == {"cytosol", "soma", "lamella", "edge"}

\* The categories EventCollections.__init__ merges from the elementary
\* sequences t1 (pure_s), t2 (pure_d) and t3 (pure_t).
ShrinksMutNoCs(t1, PARAMS) == Or(t1[<<"g","s">>], t1[<<"p","s">>], PARAMS)
Shrinks(t1, PARAMS) ==
    Or(Or(t1[<<"g","s">>], t1[<<"p","s">>], PARAMS), t1[<<"c","s">>], PARAMS)
GrowsMutSgTwice(t1, PARAMS) ==
    Or(Or(t1[<<"s","g">>], t1[<<"p","g">>], PARAMS), t1[<<"s","g">>], PARAMS)
Grows(t1, PARAMS) ==
    Or(Or(t1[<<"s","g">>], t1[<<"p","g">>], PARAMS), t1[<<"c","g">>], PARAMS)
Pauses(t1, PARAMS) == Or(t1[<<"g","p">>], t1[<<"s","p">>], PARAMS)
ShrinkGrowth(t2, PARAMS) ==
    Or(Or(t2[<<"g","s","g">>], t2[<<"p","s","g">>], PARAMS),
       t2[<<"c","s","g">>], PARAMS)
GrowthShrinkMutGps(t2, PARAMS) ==
    Or(Or(t2[<<"s","g","s">>], t2[<<"p","g","s">>], PARAMS),
       t2[<<"g","p","s">>], PARAMS)
GrowthShrink(t2, PARAMS) ==
    Or(Or(t2[<<"s","g","s">>], t2[<<"p","g","s">>], PARAMS),
       t2[<<"c","g","s">>], PARAMS)
GrowthPauseShrink(t3, PARAMS) ==
    Or(t3[<<"s","g","p","s">>], t3[<<"c","g","p","s">>], PARAMS)

\* Single(f), Double(f) or Triple(f), as the class is named.
New(cls, s, params) ==
    CASE cls = "Single" -> Single(s, params)
      [] cls = "Double" -> Double(s, params)
      [] cls = "Triple" -> Triple(s, params)

\* EventCollections.__init__, lines 98-103: the elementary sequences of one
\* table, each built for its field name and scanned over the region.
Scans(cls, tup, records, lim, PARAMS) ==
    [f \in Fields(tup) |-> set_from_records(New(cls, f, PARAMS), records, lim, PARAMS)]

\* EventCollections.__init__, lines 93-95 and 105-125: the attributes of the
\* catalog, the categories merged from the elementary sequences.
Catalog(cell_region, pure_s, pure_d, pure_t, PARAMS) ==
    [include_ornt |-> PARAMS.history_version > 1,
     region |-> cell_region,
     pure_s |-> pure_s,
     pure_d |-> pure_d,
     pure_t |-> pure_t,
     shrinks |-> Shrinks(pure_s, PARAMS),
     grows |-> Grows(pure_s, PARAMS),
     pauses |-> Pauses(pure_s, PARAMS),
     sg |-> ShrinkGrowth(pure_d, PARAMS),
     gs |-> GrowthShrink(pure_d, PARAMS),
     gps |-> GrowthPauseShrink(pure_t, PARAMS)]

\* The limits of a region, lines 96-97.
LimOf(cr) == <<cr.rad_min, cr.rad_max>>

\* EventCollections.__init__
EventCollections(records, cell_region, PARAMS) ==
    Catalog(cell_region,
            Scans("Single", PureS, records,
                  LimOf(PARAMS.cell.regions[cell_region]), PARAMS),
            Scans("Double", PureD, records,
                  LimOf(PARAMS.cell.regions[cell_region]), PARAMS),
            Scans("Triple", PureT, records,
                  LimOf(PARAMS.cell.regions[cell_region]), PARAMS),
            PARAMS)

\* CellHistory.__init__, lines 123-128: one catalog per region of the cell.
Collections(records, PARAMS) ==
    [n \in RegionNames |-> EventCollections(records, n, PARAMS)]

\* ------------------------------------------------------------- the reports
\* The floats of the reports: NaN propagates through a sum and a quotient,
\* and a numpy quotient by zero is infinite (<<1, 0>> or <<-1, 0>>) or NaN.
FAdd(a, b) == IF isnan(a) \/ isnan(b) THEN NaN ELSE RatAdd(a, b)
FMul(a, b) == IF isnan(a) \/ isnan(b) THEN NaN ELSE RatMul(a, b)
FDiv(a, b) ==
    IF isnan(a) \/ isnan(b) THEN NaN
    ELSE IF b[1] = 0
         THEN (IF a[1] = 0 THEN NaN ELSE <<IF a[1] > 0 THEN 1 ELSE -1, 0>>)
    ELSE RatDiv(a, b)
\* ndarray.sum() and the square of ndarray.std() of an array of floats.
ArrSumMutNansum(xs) ==
    RatSum(SelectSeq(xs, LAMBDA x : ~isnan(x)))
ArrSum(xs) ==
    IF \E k \in 1..Len(xs) : isnan(xs[k]) THEN NaN ELSE RatSum(xs)
ArrVar(xs) ==
    IF \E k \in 1..Len(xs) : isnan(xs[k]) THEN NaN ELSE RatVar(xs)
\* np.isclose(x, 0.) with the default tolerances: |x| <= 1e-8, False for NaN.
isclose0(x) == ~isnan(x) /\ Abs(x[1]) <= x[2] \div 100000000

None == [none |-> TRUE]

\* The records the logger and vis.pie receive.
Info(msg, v) == [lvl |-> "info", msg |-> msg, v |-> v]
Warning(msg) == [lvl |-> "warning", msg |-> msg, v |-> NaN]
Pie(sizes, title, show) ==
    [sizes |-> sizes, labels |-> <<"growth", "shrink", "pause">>,
     title |-> title, show |-> show]

\* Single.name, Double.name, Triple.name
Single_name(self) ==
    IF self.a.fr >= 0 THEN name_short(self.a.fr) \o name_short(self.a.to)
    ELSE name(self.a.to)
Double_name(self) ==
    IF self.a.fr >= 0
    THEN name_short(self.a.fr) \o name_short(self.a.im) \o name_short(self.a.to)
    ELSE name(self.a.im) \o "+" \o name(self.a.to)
Triple_name(self) ==
    IF self.a.fr >= 0
    THEN name_short(self.a.fr) \o name_short(self.a.im1)
         \o name_short(self.a.im2) \o name_short(self.a.to)
    ELSE name(self.a.im1) \o "+" \o name(self.a.im2) \o "+" \o name(self.a.to)
NameOf(self) ==
    CASE self.cls = "Single" -> Single_name(self)
      [] self.cls = "Double" -> Double_name(self)
      [] self.cls = "Triple" -> Triple_name(self)

\* The average a read of self.<attr>.avg returns.
Avg(self, attr) == Cached(Getter(self, attr), attr).avg

\* _StateSequence.report: the entry {attr: {avg, std, units}} of the read
\* Stats, and the line it logs.
report(self, attr) == Cached(Getter(self, attr), attr)
report_log(self, attr) == Info(NameOf(self) \o " " \o attr, Avg(self, attr))

\* The test that lets a cycle report draw its pie: some fraction is a number.
DrawnMutAlways(fractions) == TRUE
Drawn(fractions) == \E k \in 1..Len(fractions) : ~isnan(fractions[k])

\* A ratio of two averages as the cycle reports take it: NaN in place of a
\* quotient by a denominator np.isclose finds zero.
RatioMutUndivided(x, total) == IF ~isclose0(total) THEN x ELSE NaN
Ratio(x, total) == IF ~isclose0(total) THEN FDiv(x, total) ELSE NaN

\* EventCollections.report_cycle_uncorrelated: the dict it returns (ret),
\* the catalog after the reads (self), the lines logged and the pies drawn.
report_cycle_uncorrelated(self, show, END) ==
    LET cycle == <<Avg(self.shrinks, "duration"), Avg(self.grows, "duration"),
                   Avg(self.pauses, "duration")>>
        cycle_duration == Stats(ArrSum(cycle), ArrVar(cycle), "sec")
        growth_dur_frac == Ratio(Avg(self.grows, "duration"), cycle_duration.avg)
        shrink_dur_frac == Ratio(Avg(self.shrinks, "duration"), cycle_duration.avg)
        pause_dur_frac == Ratio(Avg(self.pauses, "duration"), cycle_duration.avg)
        fractions == <<growth_dur_frac, shrink_dur_frac, pause_dur_frac>>
        drawn == Drawn(fractions)
    IN  [ret |-> [duration |-> [avg |-> cycle_duration.avg,
                                std |-> cycle_duration.std],
                  time_fraction |-> [growth |-> growth_dur_frac,
                                     shrink |-> shrink_dur_frac,
                                     pause |-> pause_dur_frac]],
         self |-> [self EXCEPT !.shrinks = Getter(@, "duration"),
                               !.grows = Getter(@, "duration"),
                               !.pauses = Getter(@, "duration")],
         log |-> <<Info("Uncorrelated cycle_duration", cycle_duration.avg),
                   Info("Uncorrelated growth time fraction", growth_dur_frac),
                   Info("Uncorrelated shrink time fraction", shrink_dur_frac),
                   Info("Uncorrelated pause time fraction", pause_dur_frac)>>
                 \o (IF drawn THEN <<>>
                     ELSE <<Info("omitting Time Fractions plot", NaN)>>),
         pie |-> IF drawn
                 THEN <<Pie(fractions, "Uncorrelated time fractions", show)>>
                 ELSE <<>>]

\* The Stats of the cycle growth -> shrink with or without a pause between,
\* lines 290-312: the averages of gs and gps weighted by their numbers; the
\* std field holds the square of the source's
\* sqrt((n_gs * std_gs)^2 + (n_gps * std_gps)^2) / g0s_num.
g0s_durMutUnweighted(n_gs, gs_dur, n_gps, gps_dur) ==
    IF n_gs + n_gps # 0 /\ ~isnan(gs_dur.avg) /\ ~isnan(gps_dur.avg)
    THEN Stats(FDiv(FAdd(gs_dur.avg, gps_dur.avg), RatInt(2)),
               FDiv(FAdd(FMul(RatInt(n_gs * n_gs), gs_dur.std),
                         FMul(RatInt(n_gps * n_gps), gps_dur.std)),
                    RatInt((n_gs + n_gps) * (n_gs + n_gps))),
               "sec")
    ELSE Stats(NaN, NaN, "")
g0s_dur(n_gs, gs_dur, n_gps, gps_dur) ==
    IF n_gs + n_gps # 0 /\ ~isnan(gs_dur.avg) /\ ~isnan(gps_dur.avg)
    THEN Stats(FDiv(FAdd(FMul(RatInt(n_gs), gs_dur.avg),
                         FMul(RatInt(n_gps), gps_dur.avg)),
                    RatInt(n_gs + n_gps)),
               FDiv(FAdd(FMul(RatInt(n_gs * n_gs), gs_dur.std),
                         FMul(RatInt(n_gps * n_gps), gps_dur.std)),
                    RatInt((n_gs + n_gps) * (n_gs + n_gps))),
               "sec")
    ELSE Stats(NaN, NaN, "")

\* A time fraction of the g0s cycle, lines 314-332.
g0s_fracMutInverse(x, total) ==
    IF ~isclose0(total) /\ ~isnan(total) THEN FDiv(total, x) ELSE NaN
g0s_frac(x, total) ==
    IF ~isclose0(total) /\ ~isnan(total) THEN FDiv(x, total) ELSE NaN

\* EventCollections.report_cycle_correlated: as report_cycle_uncorrelated.
report_cycle_correlated(self, show, END) ==
    LET sg_dur == report(self.sg, "duration")
        gs_dur == report(self.gs, "duration")
        gps_dur == report(self.gps, "duration")
        g0s == g0s_dur(num(self.gs), report(self.gs, "duration"),
                       num(self.gps), report(self.gps, "duration"))
        fractions == <<g0s_frac(Avg(self.grows, "duration"), g0s.avg),
                       g0s_frac(Avg(self.shrinks, "duration"), g0s.avg),
                       g0s_frac(Avg(self.pauses, "duration"), g0s.avg)>>
        drawn == Drawn(fractions)
    IN  [ret |->
           [sg |-> [duration |-> sg_dur,
                    time_fraction |->
                      [growth |-> Ratio(Avg(self.grows, "duration"), sg_dur.avg),
                       shrink |-> Ratio(Avg(self.shrinks, "duration"), sg_dur.avg)]],
            gs |-> [duration |-> gs_dur,
                    time_fraction |->
                      [growth |-> Ratio(Avg(self.grows, "duration"), gs_dur.avg),
                       shrink |-> Ratio(Avg(self.shrinks, "duration"), gs_dur.avg)]],
            g0s |-> [duration |-> [avg |-> g0s.avg, std |-> g0s.std],
                     time_fraction |-> [growth |-> fractions[1],
                                        shrink |-> fractions[2],
                                        pause |-> fractions[3]]]],
         self |-> [self EXCEPT !.sg = Getter(@, "duration"),
                               !.gs = Getter(@, "duration"),
                               !.gps = Getter(@, "duration"),
                               !.shrinks = Getter(@, "duration"),
                               !.grows = Getter(@, "duration"),
                               !.pauses = Getter(@, "duration")],
         log |-> <<report_log(self.sg, "duration"),
                   Info("Correlated growth time fraction sg cycle",
                        Ratio(Avg(self.grows, "duration"), sg_dur.avg)),
                   Info("Correlated shrink time fraction sg cycle",
                        Ratio(Avg(self.shrinks, "duration"), sg_dur.avg)),
                   report_log(self.gs, "duration"),
                   Info("Correlated growth time fraction gs cycle",
                        Ratio(Avg(self.grows, "duration"), gs_dur.avg)),
                   Info("Correlated shrink time fraction gs cycle",
                        Ratio(Avg(self.shrinks, "duration"), gs_dur.avg)),
                   report_log(self.gps, "duration"),
                   Info("Correlated cycle g0s duration", g0s.avg),
                   Info("Correlated growth time fraction g0s cycle", fractions[1]),
                   Info("Correlated shrink time fraction g0s cycle", fractions[2]),
                   Info("Correlated pause time fraction g0s cycle", fractions[3])>>
                 \o (IF drawn THEN <<>>
                     ELSE <<Info("omitting Time Fractions plot", NaN)>>),
         pie |-> IF drawn
                 THEN <<Pie(fractions, "Correlated time fractions", show)>>
                 ELSE <<>>]

\* The attributes report_by_type reports of a sequence, lines 401-406.
ReportAttrs(include_ornt) ==
    <<"duration", "elongation", "velocity">>
    \o (IF include_ornt THEN <<"reorientation">> ELSE <<>>)

\* The elementary sequences of a catalog in the order report_by_type visits
\* them: pure_s, pure_d, pure_t, each in declaration order.
Elementary(self) ==
    [k \in 1..Len(PureS) |-> self.pure_s[PureS[k]]]
    \o [k \in 1..Len(PureD) |-> self.pure_d[PureD[k]]]
    \o [k \in 1..Len(PureT) |-> self.pure_t[PureT[k]]]

\* The sequence after the reads of the attributes reported of it.
RECURSIVE Reads(_, _, _)
Reads(t, attrs, k) ==
    IF k > Len(attrs) \/ IsExc(t) THEN t
    ELSE Reads(Getter(t, attrs[k]), attrs, k + 1)

\* The entry of one sequence in the summary: its number, and for a sequence
\* with occurrences the Stats of every reported attribute.  The histograms
\* and fits of reporters.Elongation and reporters.Velocity add no entry.
TypeEntry(t, attrs) ==
    IF num(t) # 0
    THEN [k \in {"num"} \cup {attrs[i] : i \in 1..Len(attrs)} |->
            IF k = "num" THEN num(t) ELSE report(t, k)]
    ELSE [num |-> 0]
\* The lines logged for an elementary sequence, lines 397-409.
TypeLog(t, attrs, region) ==
    IF num(t) # 0
    THEN [i \in 1..Len(attrs) |-> report_log(t, attrs[i])]
    ELSE <<Info("No events detected for type " \o NameOf(t) \o " in "
                \o region \o ": skipping report.", NaN)>>
CategoryLog(t, attrs) ==
    IF num(t) # 0
    THEN [i \in 1..Len(attrs) |-> report_log(t, attrs[i])]
    ELSE <<>>

RECURSIVE Flat(_)
Flat(seqs) == IF seqs = <<>> THEN <<>> ELSE Head(seqs) \o Flat(Tail(seqs))

\* report_by_type, line 392: the sum the region-border warning tests.
NoneDetectedMutAllWidths(self) ==
    \A k \in 1..Len(Elementary(self)) : num(Elementary(self)[k]) = 0
NoneDetected(self) == \A f \in Fields(PureS) : num(self.pure_s[f]) = 0

\* report_by_type, lines 386-446: the entries of the elementary sequences
\* and of the categories growth, shrink and pause; the lines logged; the
\* catalog after the reads.
TypeNames(els) == {NameOf(els[k]) : k \in 1..Len(els)}
TypeRes(self, els) ==
    [n \in TypeNames(els) \cup {"growth", "shrink", "pause"} |->
       CASE n = "growth" -> TypeEntry(self.grows, ReportAttrs(self.include_ornt))
         [] n = "shrink" -> TypeEntry(self.shrinks, ReportAttrs(self.include_ornt))
         [] n = "pause" -> TypeEntry(self.pauses, ReportAttrs(self.include_ornt))
         [] OTHER ->
            TypeEntry(els[CHOOSE k \in 1..Len(els) : NameOf(els[k]) = n],
                      ReportAttrs(self.include_ornt))]
TypesLogged(self, els, END) ==
    <<Info("End states by type", RatInt(END))>>
    \o (IF NoneDetected(self)
        THEN <<Warning("WARNING: No event of any type detected in cell "
                       \o self.region \o ": are region borders meaningful?.")>>
        ELSE <<>>)
    \o Flat([k \in 1..Len(els) |->
               TypeLog(els[k], ReportAttrs(self.include_ornt), self.region)])
    \o CategoryLog(self.grows, ReportAttrs(self.include_ornt))
    \o CategoryLog(self.shrinks, ReportAttrs(self.include_ornt))
    \o CategoryLog(self.pauses, ReportAttrs(self.include_ornt))
ReadIfAny(t, attrs) == IF num(t) # 0 THEN Reads(t, attrs, 1) ELSE t
TypesRead(self) ==
    [self EXCEPT
       !.pure_s = [f \in DOMAIN @ |-> ReadIfAny(@[f], ReportAttrs(self.include_ornt))],
       !.pure_d = [f \in DOMAIN @ |-> ReadIfAny(@[f], ReportAttrs(self.include_ornt))],
       !.pure_t = [f \in DOMAIN @ |-> ReadIfAny(@[f], ReportAttrs(self.include_ornt))],
       !.grows = ReadIfAny(@, ReportAttrs(self.include_ornt)),
       !.shrinks = ReadIfAny(@, ReportAttrs(self.include_ornt)),
       !.pauses = ReadIfAny(@, ReportAttrs(self.include_ornt))]
\* A read of an attribute the sequence does not hold raises.
TypesRaise(self, els) ==
    \/ \E k \in 1..Len(els) :
          IsExc(ReadIfAny(els[k], ReportAttrs(self.include_ornt)))
    \/ \E t \in {self.grows, self.shrinks, self.pauses} :
          IsExc(ReadIfAny(t, ReportAttrs(self.include_ornt)))

\* report_by_type, lines 448-453: the summary {region: res} with the two
\* cycle reports unc and cor, taken one after the other on the catalog
\* the reads of the types have left.
Summary(self, END, unc, cor) ==
    [ret |-> (self.region :>
                (TypeRes(self, Elementary(self)) @@ [cycle_uncorrelated |-> unc.ret,
                                   cycle_correlated |-> cor.ret])),
     self |-> cor.self,
     log |-> TypesLogged(self, Elementary(self), END) \o unc.log \o cor.log,
     pie |-> unc.pie \o cor.pie]
\* A cycle report that is not taken: None in the summary.
NotTakenMutNaN(self) ==
    [ret |-> [duration |-> [avg |-> NaN, std |-> NaN],
              time_fraction |-> [growth |-> NaN, shrink |-> NaN, pause |-> NaN]],
     self |-> self, log |-> <<>>, pie |-> <<>>]
NotTaken(self) == [ret |-> None, self |-> self, log |-> <<>>, pie |-> <<>>]

\* EventCollections.report_by_type
report_by_type(self, show, END) ==
    IF TypesRaise(self, Elementary(self)) THEN Raise("AttributeError")
    ELSE IF END # 0
    THEN Summary(self, END,
                 report_cycle_uncorrelated(TypesRead(self), show, END),
                 report_cycle_correlated(
                     report_cycle_uncorrelated(TypesRead(self), show, END).self,
                     show, END))
    ELSE Summary(self, END, NotTaken(TypesRead(self)), NotTaken(TypesRead(self)))

\* EventCollections.initialise: the class attributes it sets on
\* EventCollections, Single, Double and Triple.
Classes == {"EventCollections", "Single", "Double", "Triple"}
initialiseMutBare(params, end, path_out, logger) ==
    [c \in Classes |->
       IF c = "EventCollections"
       THEN [PARAMS |-> params, END |-> end, path_out |-> path_out,
             logger |-> logger]
       ELSE None]
initialise(params, end, path_out, logger) ==
    [c \in Classes |->
       [PARAMS |-> params, END |-> end, path_out |-> path_out,
        logger |-> logger]]

\* ------------------------------------------------------------------ inputs
\* One filament's stream as FilamentHistory.read leaves it: the events run
\* through the states of `chain` (state_fr[k] = chain[k], state_to[k] =
\* chain[k + 1]), positions lie on the x axis at xs, and dist0 is derived.
MkStream(chain, time, xs, lens, grw, shr, ornt, version) ==
    LET n == IF chain = <<>> THEN 0 ELSE Len(chain) - 1
        pos == [k \in 1..n |-> <<xs[k], 0, 0>>]
        base == [numrec |-> n,
                 time |-> [k \in 1..n |-> time[k]],
                 state_fr |-> [k \in 1..n |-> chain[k]],
                 state_to |-> [k \in 1..n |-> chain[k + 1]],
                 pos |-> pos,
                 length |-> [k \in 1..n |-> lens[k]],
                 cas |-> [k \in 1..n |-> <<0, 0, 0, 0, 0, 0>>],
                 dist_plm |-> [k \in 1..n |-> 0],
                 dist_nuc |-> [k \in 1..n |-> 0],
                 dist0 |-> [k \in 1..n |-> Norm2(pos[k])]]
    IN  IF version = 2
        THEN base @@ [ornt |-> [k \in 1..n |-> ornt[k]],
                      ngrw |-> [k \in 1..n |-> grw[k]],
                      nshr |-> [k \in 1..n |-> shr[k]]]
        ELSE base

Versions == {1, 2}

\* The sequences over a set, of the given lengths.
SeqsOf(set, lens) == UNION {[1..n -> set] : n \in lens}

\* Timestamps from the gaps between consecutive events, starting at 0.
RECURSIVE TimeFrom(_, _)
TimeFrom(dts, k) == IF k <= 1 THEN 0 ELSE TimeFrom(dts, k - 1) + dts[k - 1]
Times(dts, n) == [k \in 1..n |-> TimeFrom(dts, k)]

\* Defaults of the fields a family of inputs does not vary.
Ones(n) == [k \in 1..n |-> 1]
Zeros(n) == [k \in 1..n |-> 0]
UnitX == <<1, 0, 0>>
UnitY == <<0, 1, 0>>
Const(n, v) == [k \in 1..n |-> v]
Plain(chain, dts, xs, version) ==
    LET n == Len(chain) - 1
    IN  MkStream(chain, Times(dts, n), xs, Ones(n), Zeros(n), Zeros(n),
                 Const(n, UnitX), version)

\* --------------------------------------------------------------- variables
VARIABLES
    records,      \* the filament event streams of the run (CellHistory.records)
    PARAMS,       \* the class-level parameters set by EventCollections.initialise
    m,            \* a pattern matcher a caller has built and scanned, or NoObj
    call,         \* the call that produced m, u or ret
    collections,  \* CellHistory.collections: the catalog of every region
    u,            \* the sequences a caller has composed with |
    ret,          \* the value the last property read or report returned
    conf,         \* the class attributes EventCollections.initialise sets
    out,          \* the lines the logger received and the pies vis.pie drew
    run,          \* the position of CellHistory.__init__ in its body
    scans,        \* the scans under way side by side, one per matcher
    reader,       \* a Reader: the lines of its file and the cursor of the file
    cells         \* the CellHistory objects constructed in the process

vars == <<records, PARAMS, m, call, collections, u, ret, conf, out, run, scans, reader, cells>>

NoObj == [none |-> TRUE]
NoCall == [op |-> "none"]
NoOut == [log |-> <<>>, pie |-> <<>>]
\* The classes as initialise(PARAMS, end, ...) has left them, nothing
\* reported, no construction and no scan under way.
Configured(end) ==
    /\ conf = initialise(PARAMS, end, "path_out", "logger")
    /\ out = NoOut
    /\ run = NoObj
    /\ scans = NoObj
    /\ reader = NoObj
    /\ cells = NoObj

\* The regions of the cell: the whole cell, two regions that split it at
\* the radius a, and a band one unit wide beyond a.
Regions(a) ==
    [cytosol |-> [rad_min |-> Fin(0), rad_max |-> Inf],
     soma |-> [rad_min |-> Fin(0), rad_max |-> Fin(a)],
     lamella |-> [rad_min |-> Fin(a), rad_max |-> Inf],
     edge |-> [rad_min |-> Fin(a), rad_max |-> Fin(a + 1)]]
Params(version, a) ==
    [history_version |-> version, edge_len |-> EdgeLen,
     cell |-> [regions |-> Regions(a)]]

\* ------------------------------------------------ the matcher specification
StreamStates == {G, S, P}

\* Streams that vary the states, the events one time unit apart at the centre.
StateStreams(version) ==
    {Plain(c, Ones(Len(c)), Zeros(Len(c)), version) :
        c \in SeqsOf(StreamStates, 1..(MaxLen + 1))}

\* Streams of one window of the widest pattern, s g s g s, that vary the
\* timestamps or the positions.
Window == <<S, G, S, G, S>>
TimedStreams(version) ==
    {Plain(Window, dts, Zeros(Len(Window)), version) :
        dts \in [1..(Len(Window) - 2) -> 0..MaxDt]}
PlacedStreams(version) ==
    {Plain(Window, Ones(Len(Window)), xs, version) :
        xs \in [1..(Len(Window) - 1) -> 0..MaxDist]}

\* Short streams for runs of several filaments.
ShortStreams(version) ==
    {Plain(c, dts, Zeros(Len(c)), version) :
        c \in SeqsOf({G, S}, {1, 3}), dts \in [1..2 -> 0..MaxDt]}

ScanRecords(version) ==
    {<<>>}
    \cup {<<f>> : f \in StateStreams(version) \cup TimedStreams(version)
                        \cup PlacedStreams(version)}
    \cup {<<f, g>> : f \in ShortStreams(version), g \in ShortStreams(version)}

\* The patterns and regions a caller scans with.
ScanPatterns ==
    {<<"Single", <<"g","s">> >>, <<"Single", <<"s","g">> >>,
     <<"Double", <<"g","s","g">> >>, <<"Double", <<"s","g","p">> >>,
     <<"Triple", <<"s","g","p","s">> >>, <<"Triple", <<"s","g","s","g">> >>}
ScanLims ==
    {NoLim} \cup {<<Fin(0), Fin(a)>> : a \in 1..MaxDist}
    \cup {<<Fin(a), Inf>> : a \in 1..MaxDist}
    \cup {<<Fin(a), Fin(a + 1)>> : a \in 1..MaxDist}

Init ==
    /\ \E v \in Versions :
         /\ PARAMS = Params(v, 1)
         /\ records \in ScanRecords(v)
    /\ m = NoObj
    /\ call = NoCall
    /\ collections = NoObj
    /\ u = NoObj
    /\ ret = NoObj
    /\ Configured(1)

\* A caller builds a matcher for a pattern and scans the streams:
\* cls(s).set_from_records(records, dist_lim).  A behaviour follows one
\* matcher.
Scan(cls, s, dist_lim) ==
    /\ call.op = "none"
    /\ m' = set_from_records(New(cls, s, PARAMS), records, dist_lim, PARAMS)
    /\ call' = [op |-> "set_from_records", cls |-> cls, s |-> s,
                dist_lim |-> dist_lim]
    /\ UNCHANGED <<records, PARAMS, collections, u, ret, conf, out, run, scans, reader, cells>>

Next ==
    \E p \in ScanPatterns, lim \in ScanLims : Scan(p[1], p[2], lim)

Spec == Init /\ [][Next]_vars

\* ------------------------------------------------ the catalog specification
CatStates == {G, S, P, C, D}
Codes(f) == [k \in 1..Len(f) |-> CodeOf(f[k])]

\* The state chains of the catalog's inputs: every chain of up to two events,
\* and every two- and three-state pattern of the catalog followed by any state.
CatChains ==
    SeqsOf(CatStates, 1..3)
    \cup {Codes(f) \o <<x>> : f \in Fields(PureD) \cup Fields(PureT), x \in CatStates}
CatStateStreams(version) ==
    {Plain(c, Ones(Len(c)), Zeros(Len(c)), version) : c \in CatChains}
\* Runs of three filaments that each enter shrinking a different way, or
\* depolymerize.
CatShortChains == {<<G, S, G>>, <<P, S, G>>, <<C, S, G>>, <<G, D, G>>}
CatShortStreams(version) ==
    {Plain(c, Ones(Len(c)), Zeros(Len(c)), version) : c \in CatShortChains}
\* Runs of two filaments that each hold one alternative of a compound.
CatLongChains ==
    {<<S, G, S, G>>, <<P, G, S, G>>, <<G, P, S, G>>,
     <<S, G, P, S, G>>, <<C, G, P, S, G>>}
CatLongStreams(version) ==
    {Plain(c, Ones(Len(c)), Zeros(Len(c)), version) : c \in CatLongChains}
\* One growth-pause-shrink cycle whose events lie at different distances.
CatPlacedStreams(version) ==
    {Plain(<<S, G, P, S, G>>, Ones(5), xs, version) : xs \in [1..4 -> 0..MaxDist]}
CatRecords(version) ==
    {<<>>}
    \cup {<<f>> : f \in CatStateStreams(version) \cup TimedStreams(version)
                        \cup PlacedStreams(version) \cup CatPlacedStreams(version)}
    \cup {<<f, g, h>> : f \in CatShortStreams(version),
                        g \in CatShortStreams(version),
                        h \in CatShortStreams(version)}
    \cup {<<f, g>> : f \in CatLongStreams(version), g \in CatLongStreams(version)}

InitCat ==
    /\ \E v \in Versions :
         /\ PARAMS = Params(v, MaxDist)
         /\ records \in CatRecords(v)
    /\ m = NoObj
    /\ call = NoCall
    /\ collections = NoObj
    /\ u = NoObj
    /\ ret = NoObj
    /\ Configured(1)

\* CellHistory.__init__ builds the catalog of every region.
BuildCollections ==
    /\ call.op = "none"
    /\ collections' = Collections(records, PARAMS)
    /\ call' = [op |-> "collections"]
    /\ UNCHANGED <<records, PARAMS, m, u, ret, conf, out, run, scans, reader, cells>>

NextCat == BuildCollections

SpecCat == InitCat /\ [][NextCat]_vars


\* --------------------------------------------- the composition specification
\* Filaments whose kinetics differ from one another: the events are d time
\* units apart at distance x from the centre, each event adds d + 1 length
\* units, and the end turns by a right angle at every event of a filament
\* with an even d.
OpsChains == {<<S, G, S, G>>, <<P, G, S, G>>, <<S, G, P, S, G>>, <<C, G, P, S, G>>}
OpsPartnerChains == {<<P, G, S, G>>, <<S, G, P, S, G>>}
Kinetic(chain, d, x, version) ==
    LET n == Len(chain) - 1
    IN  MkStream(chain, [k \in 1..n |-> (k - 1) * d], Const(n, x),
                 [k \in 1..n |-> k * (d + 1)], [k \in 1..n |-> k * (d + 1)],
                 Zeros(n),
                 [k \in 1..n |-> IF d % 2 = 0 /\ k % 2 = 0 THEN UnitY ELSE UnitX],
                 version)
OpsStreams(version) ==
    {Kinetic(c, d, x, version) :
        c \in OpsChains, d \in 0..(MaxDt + 1), x \in 0..MaxDist}
OpsPartners(version) == {Kinetic(c, 1, 0, version) : c \in OpsPartnerChains}
OpsRecords(version) ==
    {<<>>}
    \cup {<<f>> : f \in OpsStreams(version)}
    \cup {<<f, g>> : f \in OpsStreams(version), g \in OpsPartners(version)}

\* The region the composed sequences are scanned over.
OpsLim == <<Fin(0), Fin(MaxDist)>>
\* The patterns a caller composes, by class.
OpsPatterns ==
    [Single |-> {<<"g","s">>, <<"s","g">>, <<"p","s">>},
     Triple |-> {<<"s","g","p","s">>, <<"c","g","p","s">>}]

InitOps ==
    /\ \E v \in Versions :
         /\ PARAMS = Params(v, MaxDist)
         /\ records \in OpsRecords(v)
    /\ m = NoObj
    /\ call = NoCall
    /\ collections = NoObj
    /\ u = NoObj
    /\ ret = NoObj
    /\ Configured(1)

\* The unions a caller composes of three sequences of one class:
\* x | y, y | x, (x | y) | z, x | (y | z) and x | x.
Unions(x, y, z, params) ==
    [x |-> x, y |-> y, z |-> z,
     xy |-> Or(x, y, params),
     yx |-> Or(y, x, params),
     xy_z |-> Or(Or(x, y, params), z, params),
     x_yz |-> Or(x, Or(y, z, params), params),
     xx |-> Or(x, x, params)]

\* A caller scans three patterns of one class and composes them.
Compose(cls, sx, sy, sz) ==
    /\ call.op = "none"
    /\ u' = Unions(set_from_records(New(cls, sx, PARAMS), records, OpsLim, PARAMS),
                   set_from_records(New(cls, sy, PARAMS), records, OpsLim, PARAMS),
                   set_from_records(New(cls, sz, PARAMS), records, OpsLim, PARAMS),
                   PARAMS)
    /\ call' = [op |-> "compose", cls |-> cls, sx |-> sx, sy |-> sy, sz |-> sz]
    /\ UNCHANGED <<records, PARAMS, m, collections, ret, conf, out, run, scans, reader, cells>>

\* A caller reads one statistic of a scanned or of a composed sequence:
\* the getter caches the Stats on the object and returns it, or raises.
ReadSlots == {"x", "xy"}
Read(slot, attr) ==
    /\ call.op = "compose"
    /\ ~IsExc(u[slot])
    /\ LET after == Getter(u[slot], attr)
       IN  /\ ret' = IF IsExc(after) THEN after ELSE Cached(after, attr)
           /\ u' = IF IsExc(after) THEN u ELSE [u EXCEPT ![slot] = after]
    /\ call' = [op |-> "read", cls |-> call.cls, sx |-> call.sx, sy |-> call.sy,
                sz |-> call.sz, slot |-> slot, attr |-> attr]
    /\ UNCHANGED <<records, PARAMS, m, collections, conf, out, run, scans, reader, cells>>

NextOps ==
    \/ \E cls \in DOMAIN OpsPatterns :
         \E sx \in OpsPatterns[cls], sy \in OpsPatterns[cls], sz \in OpsPatterns[cls] :
            Compose(cls, sx, sy, sz)
    \/ \E slot \in ReadSlots, attr \in Attrs : Read(slot, attr)

SpecOps == InitOps /\ [][NextOps]_vars

\* ------------------------------------------------ the reports specification
\* Filaments that run through whole cycles, d time units between the
\* events, and partners with fewer phases and another pace.
RepChains == {<<S, G, S, G, P, S, G>>, <<P, G, S, P, G>>}
RepPartnerChains == {<<S, G, S, G>>, <<G, P, S, G>>}
RepCycles(version) ==
    {Kinetic(c, d, x, version) : c \in RepChains, d \in 1..(MaxDt + 1), x \in 0..MaxDist}
RepPartners(version) ==
    {Kinetic(c, d, 0, version) : c \in RepPartnerChains, d \in {1, MaxDt + 2}}
\* One cycle whose events follow at once or after a while, at different
\* distances from the centre.
RepKinked(version) ==
    {Plain(<<S, G, P, S, G>>, dts, xs, version) :
        dts \in [1..3 -> 0..MaxDt],
        xs \in {<<a, MaxDist, MaxDist, MaxDist>> : a \in 0..MaxDist}}
RepRecords(version) ==
    {<<>>}
    \cup {<<f>> : f \in RepKinked(version)}
    \cup {<<f, g>> : f \in RepCycles(version), g \in RepPartners(version)}
    \cup {<<Plain(<<S, G, P, S, G>>, Ones(3),
                  <<a, MaxDist - a, MaxDist - a, MaxDist - a>>, version), g>> :
             a \in 0..MaxDist, g \in RepPartners(version)}

\* The filament ends a run analyses: END is the index of the end.
Ends == {0, 1}

InitRep ==
    /\ \E v \in Versions :
         /\ PARAMS = Params(v, MaxDist)
         /\ records \in RepRecords(v)
    /\ m = NoObj
    /\ call = NoCall
    /\ collections = NoObj
    /\ u = NoObj
    /\ ret = NoObj
    /\ \E end \in Ends : Configured(end)

\* The effects of report_by_type on the region n once it has returned r.
Reported(n, show, r) ==
    /\ ret' = IF IsExc(r) THEN r ELSE r.ret
    /\ collections' =
         IF IsExc(r) THEN collections ELSE [collections EXCEPT ![n] = r.self]
    /\ out' = IF IsExc(r) THEN out
              ELSE [log |-> out.log \o r.log, pie |-> out.pie \o r.pie]
    /\ call' = [op |-> "report_by_type", region |-> n, show |-> show]
    /\ UNCHANGED <<records, PARAMS, m, u, conf, run, scans, reader, cells>>

\* A caller takes the summary of one region: collections[n].report_by_type(show).
Report(n, show) ==
    /\ call.op = "collections"
    /\ Reported(n, show,
                report_by_type(collections[n], show, conf.EventCollections.END))

NextRep ==
    \/ BuildCollections
    \/ \E n \in RegionNames, show \in BOOLEAN : Report(n, show)

SpecRep == InitRep /\ [][NextRep]_vars


\* ----------------------------------------------- the patterns specification
\* The pattern strings a caller may hand to a constructor: the letters of a
\* state in lower and in upper case, of no state, and the long s.
PatLetters == {"g", "S", "x", "U+017F"}
PatStrings == SeqsOf(PatLetters, 0..(MaxLen + 1))
PatClasses == {"Single", "Triple"}
PatRecords(version) ==
    {<<>>, <<Plain(<<S, G, S, G, S, G>>, Ones(5), Zeros(5), version)>>}

InitPat ==
    /\ \E v \in Versions :
         /\ PARAMS = Params(v, 1)
         /\ records \in PatRecords(v)
    /\ m = NoObj
    /\ call = NoCall
    /\ collections = NoObj
    /\ u = NoObj
    /\ ret = NoObj
    /\ Configured(1)

\* A caller constructs a matcher: cls(s).  m is the matcher, or the
\* exception the caller receives in its place.
Construct(cls, s) ==
    /\ call.op = "none"
    /\ m' = New(cls, s, PARAMS)
    /\ call' = [op |-> "new", cls |-> cls, s |-> s]
    /\ UNCHANGED <<records, PARAMS, collections, u, ret, conf, out, run, scans, reader, cells>>

\* The caller scans the streams with the matcher it has received.
ScanBuilt(dist_lim) ==
    /\ call.op = "new"
    /\ ~IsExc(m)
    /\ m' = set_from_records(m, records, dist_lim, PARAMS)
    /\ call' = [op |-> "set_from_records", cls |-> call.cls, s |-> call.s,
                dist_lim |-> dist_lim]
    /\ UNCHANGED <<records, PARAMS, collections, u, ret, conf, out, run, scans, reader, cells>>

NextPat ==
    \/ \E cls \in PatClasses, s \in PatStrings : Construct(cls, s)
    \/ \E lim \in {NoLim, <<Fin(0), Fin(1)>>} : ScanBuilt(lim)

SpecPat == InitPat /\ [][NextPat]_vars


\* ------------------------------------------ the parallel-scans specification
\* Scans of different patterns and regions under way side by side: each
\* has its own matcher and passes over the streams one after the other; the
\* passes of different scans are taken in any order.
ParTasks ==
    {[cls |-> "Single", s |-> <<"s","g">>, region |-> "soma"],
     [cls |-> "Single", s |-> <<"s","g">>, region |-> "lamella"],
     [cls |-> "Triple", s |-> <<"s","g","p","s">>, region |-> "cytosol"]}
ParStreams(version) ==
    {Plain(<<S, G, P, S, G>>, dts, <<a, b, b, b>>, version) :
        dts \in {<<1, 1, 1>>, <<0, 1, 1>>}, a \in 0..MaxDist, b \in 0..MaxDist}
ParRecords(version) ==
    {<<>>}
    \cup {<<f>> : f \in ParStreams(version)}
    \cup {<<f, g>> : f \in ParStreams(version), g \in ParStreams(version)}
\* The limits task t scans within.
TaskLim(t) == DistLim(LimOf(PARAMS.cell.regions[t.region]))

InitPar ==
    /\ \E v \in Versions :
         /\ PARAMS = Params(v, MaxDist)
         /\ records \in ParRecords(v)
    /\ m = NoObj
    /\ call = NoCall
    /\ collections = NoObj
    /\ u = NoObj
    /\ ret = NoObj
    /\ conf = initialise(PARAMS, 1, "path_out", "logger")
    /\ out = NoOut
    /\ run = NoObj
    /\ scans = [t \in ParTasks |->
                  [self |-> New(t.cls, t.s, PARAMS), j |-> 0, done |-> FALSE]]
    /\ reader = NoObj
    /\ cells = NoObj

\* The scan of task t passes over its next stream.
ScanNextMutShared(t) ==
    /\ ~scans[t].done
    /\ scans[t].j < Len(records)
    /\ scans' = [t2 \in ParTasks |->
                   IF t2 = t
                   THEN [scans[t] EXCEPT
                           !.self = ScanStream(@, records, TaskLim(t),
                                               scans[t].j, PARAMS),
                           !.j = @ + 1]
                   ELSE [scans[t2] EXCEPT
                           !.self = ScanStream(@, records, TaskLim(t),
                                               scans[t].j, PARAMS)]]
    /\ UNCHANGED <<records, PARAMS, m, call, collections, u, ret, conf, out, run, reader, cells>>
ScanNext(t) ==
    /\ ~scans[t].done
    /\ scans[t].j < Len(records)
    /\ scans' = [scans EXCEPT
                   ![t].self = ScanStream(@, records, TaskLim(t),
                                          scans[t].j, PARAMS),
                   ![t].j = @ + 1]
    /\ UNCHANGED <<records, PARAMS, m, call, collections, u, ret, conf, out, run, reader, cells>>

\* The scan of task t has passed over every stream: it removes the
\* instantaneous occurrences and returns.
ScanEnd(t) ==
    /\ ~scans[t].done
    /\ scans[t].j = Len(records)
    /\ scans' = [scans EXCEPT ![t].self = remove_instantaneous(@),
                              ![t].done = TRUE]
    /\ UNCHANGED <<records, PARAMS, m, call, collections, u, ret, conf, out, run, reader, cells>>

NextPar ==
    \/ \E t \in ParTasks : ScanNext(t)
    \/ \E t \in ParTasks : ScanEnd(t)

SpecPar == InitPar /\ [][NextPar]_vars


\* ---------------------------------------------- the construction specification
\* CellHistory.__init__ from line 122 on, the streams read: self.collections
\* is created, EventCollections.initialise configures the classes, and the
\* catalog of every region is built in the order of Regions._fields.
RegionFields == <<"cytosol", "soma", "lamella", "edge">>
RunRecords(version) == {<<>>} \cup {<<f>> : f \in ParStreams(version)}
Unset == [c \in Classes |-> None]

InitRun ==
    /\ \E v \in Versions, end \in Ends :
         /\ run = [pc |-> "collections", params |-> Params(v, MaxDist),
                   end |-> end, inits |-> 0]
         /\ records \in RunRecords(v)
    /\ PARAMS = None
    /\ conf = Unset
    /\ m = NoObj
    /\ call = NoCall
    /\ collections = NoObj
    /\ u = NoObj
    /\ ret = NoObj
    /\ out = NoOut
    /\ scans = NoObj
    /\ reader = NoObj
    /\ cells = NoObj

\* self.collections = {}
OpenCollections ==
    /\ run.pc = "collections"
    /\ collections' = [n \in {} |-> None]
    /\ run' = [run EXCEPT !.pc = "initialise"]
    /\ UNCHANGED <<records, PARAMS, m, call, u, ret, conf, out, scans, reader, cells>>

\* s = EventCollections.initialise(self.params, self.end, ...)
Initialise ==
    /\ run.pc = "initialise"
    /\ conf' = initialise(run.params, run.end, "path_out", "logger")
    /\ PARAMS' = run.params
    /\ run' = [run EXCEPT !.pc = "regions", !.inits = @ + 1]
    /\ UNCHANGED <<records, m, call, collections, u, ret, out, scans, reader, cells>>

\* s(self.records, n): the catalog of region n and its matchers are created
\* as the classes are configured; an attribute a class was not given
\* raises AttributeError.
Instantiate(n, cfg) ==
    IF \E c \in Classes : cfg[c] = None THEN Raise("AttributeError")
    ELSE EventCollections(records, n, cfg["EventCollections"].PARAMS)

\* The pass of the loop over the regions for the next region.
BuildRegion ==
    /\ run.pc = "regions"
    /\ Cardinality(DOMAIN collections) < Len(RegionFields)
    /\ collections' =
         [n \in DOMAIN collections
                  \cup {RegionFields[Cardinality(DOMAIN collections) + 1]} |->
            IF n \in DOMAIN collections THEN collections[n]
            ELSE Instantiate(n, conf)]
    /\ UNCHANGED <<records, PARAMS, m, call, u, ret, conf, out, run, scans, reader, cells>>

\* The loop has passed over every region: the constructor returns.
Return ==
    /\ run.pc = "regions"
    /\ Cardinality(DOMAIN collections) = Len(RegionFields)
    /\ run' = [run EXCEPT !.pc = "done"]
    /\ UNCHANGED <<records, PARAMS, m, call, collections, u, ret, conf, out, scans, reader, cells>>

NextRun == OpenCollections \/ Initialise \/ BuildRegion \/ Return

SpecRun == InitRun /\ [][NextRun]_vars


\* ------------------------------------------------- the reader specification
\* inout.Reader over a text file.  A line of the file is the sequence of
\* its whitespace-separated tokens and ends with a newline; the tokens are
\* numerals and a word that is none.
MaxLines == 2
ReaderTokens == {"6", "7.0", "x"}
ReaderLines == SeqsOf(ReaderTokens, 0..2)
ReaderFiles == SeqsOf(ReaderLines, 0..MaxLines)

\* float(x) of a token: its number, ValueError for a token that is none.
Numerals == {"6", "7.0"}
Float(x) ==
    CASE x = "6" -> RatInt(6)
      [] x = "7.0" -> RatInt(7)
      [] OTHER -> Raise("ValueError")

\* Reader.__init__: the file is opened at its first line.
Reader(f) == [f |-> f, pos |-> 0, read |-> <<>>]
\* self.f.readline(): the line at the cursor with its newline, '' at the
\* end of the file.
EmptyStr == [text |-> <<>>, nl |-> FALSE]
readline(self) ==
    IF self.pos < Len(self.f)
    THEN [text |-> self.f[self.pos + 1], nl |-> TRUE]
    ELSE EmptyStr
\* The reader after self.f.readline(): the cursor is past the line read;
\* read lists the numbers of the lines readline has returned.
AfterLine(self) ==
    IF self.pos < Len(self.f)
    THEN [self EXCEPT !.pos = @ + 1, !.read = Append(@, self.pos + 1)]
    ELSE self

\* u.split()[i]
Token(toks, i) ==
    IF 0 <= i /\ i < Len(toks) THEN toks[i + 1]
    ELSE IF i < 0 /\ -i <= Len(toks) THEN toks[Len(toks) + i + 1]
    ELSE Raise("IndexError")
\* [float(x) for x in u.split()[i:]]
Floats(toks) ==
    IF \E k \in 1..Len(toks) : toks[k] \notin Numerals THEN Raise("ValueError")
    ELSE [k \in 1..Len(toks) |-> Float(toks[k])]

\* Reader.skip_lines: the reader and the value returned after the passes
\* of the loop that are left, last_line being the line of the last pass.
RECURSIVE SkipFrom(_, _, _)
SkipFrom(self, n, last_line) ==
    IF n <= 0 THEN [self |-> self, ret |-> last_line]
    ELSE SkipFrom(AfterLine(self), n - 1, readline(self))
skip_linesMutOneMore(self, n) == SkipFrom(self, n + 1, EmptyStr)
skip_lines(self, n) == SkipFrom(self, n, EmptyStr)
\* Reader.value
value(self, i) ==
    [self |-> AfterLine(self), ret |-> Token(readline(self).text, i)]
\* Reader.array
array(self, i) ==
    [self |-> AfterLine(self),
     ret |-> Floats(PySlice(readline(self).text, i, Len(readline(self).text)))]

ReaderArgs == -1..(MaxLines + 1)

InitReader ==
    /\ reader \in {Reader(f) : f \in ReaderFiles}
    /\ records = <<>>
    /\ PARAMS = None
    /\ conf = Unset
    /\ m = NoObj
    /\ call = NoCall
    /\ collections = NoObj
    /\ u = NoObj
    /\ ret = NoObj
    /\ out = NoOut
    /\ run = NoObj
    /\ scans = NoObj
    /\ cells = NoObj

\* The effects of a call of the reader that has returned r.
Called(op, arg, r) ==
    /\ reader' = r.self
    /\ ret' = r.ret
    /\ call' = [op |-> op, arg |-> arg]
    /\ UNCHANGED <<records, PARAMS, m, collections, u, conf, out, run, scans, cells>>

SkipLines(n) == Called("skip_lines", n, skip_lines(reader, n))
Value(i) == Called("value", i, value(reader, i))
Array(i) == Called("array", i, array(reader, i))

NextReader ==
    \/ \E n \in ReaderArgs : SkipLines(n)
    \/ \E i \in ReaderArgs : Value(i)
    \/ \E i \in ReaderArgs : Array(i)

SpecReader == InitReader /\ [][NextReader]_vars


\* ----------------------------------------- the occurrence-set specification
\* One occurrence set under the calls of its methods in any order: the
\* passes of the scan over the streams, each appending its matches,
\* remove_instantaneous, the reads of the statistics and a union.
\* A filament that shrinks twice after a growth and once after a pause;
\* the events follow at once or after a while, the lengths agree with the
\* counters of growth and shrink events or do not.  A partner that
\* shrinks after a pause and, at once, after a growth.
SeqChain == <<G, S, G, S, P, S, G>>
SeqLens == {<<5, 3, 4, 2, 2, 1>>, <<2, 4, 1, 1, 3, 3>>}
SeqGrw == <<0, 0, 1, 1, 1, 1>>
SeqShr == <<0, 2, 2, 4, 4, 5>>
SeqOrnt == <<UnitX, UnitY, UnitY, UnitX, UnitX, UnitX>>
SeqStreams(version) ==
    {MkStream(SeqChain, Times(<<d1, 1, 1, 1, d5>>, 6), Zeros(6), lens,
              SeqGrw, SeqShr, SeqOrnt, version) :
        d1 \in 0..MaxDt, d5 \in 0..MaxDt, lens \in SeqLens}
SeqPartners(version) ==
    {MkStream(<<P, S, G, S, G>>, <<0, 2, 5, 5>>, Zeros(4), <<3, 1, 2, 1>>,
              <<0, 0, 1, 1>>, <<0, 2, 2, 3>>, <<UnitX, UnitX, UnitY, UnitY>>,
              version)}
SeqRecords(version) ==
    {<<>>}
    \cup {<<f>> : f \in SeqStreams(version)}
    \cup {<<f, g>> : f \in SeqStreams(version), g \in SeqPartners(version)}
\* The patterns of the set, each with the alternative it is merged with.
SeqPatterns ==
    {[cls |-> "Single", s |-> <<"g","s">>, alt |-> <<"p","s">>],
     [cls |-> "Double", s |-> <<"g","s","g">>, alt |-> <<"p","s","g">>]}
MaxReads == 2

InitSeq ==
    /\ \E v \in Versions :
         /\ PARAMS = Params(v, MaxDist)
         /\ records \in SeqRecords(v)
    /\ \E p \in SeqPatterns :
         /\ m = New(p.cls, p.s, PARAMS)
         /\ call = [op |-> "new", pat |-> p, j |-> 0, reads |-> 0, attr |-> ""]
    /\ collections = NoObj
    /\ u = NoObj
    /\ ret = NoObj
    /\ Configured(1)

\* One pass of the loop of set_from_records: the matches of the next stream
\* are appended.
AppendStream ==
    /\ ~IsExc(m)
    /\ call.j < Len(records)
    /\ m' = ScanStream(m, records, DistLim(NoLim), call.j, PARAMS)
    /\ call' = [call EXCEPT !.op = "append", !.j = @ + 1]
    /\ UNCHANGED <<records, PARAMS, collections, u, ret, conf, out, run, scans, reader, cells>>

\* self.remove_instantaneous()
RemoveInstantaneous ==
    /\ ~IsExc(m)
    /\ m' = remove_instantaneous(m)
    /\ call' = [call EXCEPT !.op = "remove_instantaneous"]
    /\ UNCHANGED <<records, PARAMS, collections, u, ret, conf, out, run, scans, reader, cells>>

\* A read of the property attr: the getter caches the Stats on the object
\* and returns it, or raises.
ReadStat(attr) ==
    /\ ~IsExc(m)
    /\ call.reads < MaxReads
    /\ m' = IF IsExc(Getter(m, attr)) THEN m ELSE Getter(m, attr)
    /\ ret' = IF IsExc(Getter(m, attr)) THEN Getter(m, attr)
              ELSE Cached(Getter(m, attr), attr)
    /\ call' = [call EXCEPT !.op = "read", !.attr = attr, !.reads = @ + 1]
    /\ UNCHANGED <<records, PARAMS, collections, u, conf, out, run, scans, reader, cells>>

\* self | other as it leaves its operands and the object it returns:
\* stack_attributes sets attributes on the new object alone.
or_effectsMutInPlace(self, other, params) ==
    [self |-> Or(self, other, params), other |-> other,
     new |-> Or(self, other, params)]
or_effects(self, other, params) ==
    [self |-> self, other |-> other, new |-> Or(self, other, params)]

\* The set is merged with the set of the alternative pattern, scanned over
\* the same streams and, with `read`, its duration read before: the
\* behaviour goes on with the union.
Merged(r) ==
    /\ u' = [x |-> r.self, y |-> r.other, xy |-> r.new]
    /\ m' = r.new
Union(read) ==
    /\ ~IsExc(m)
    /\ u = NoObj
    /\ Merged(or_effects(
           m,
           IF read
           THEN Getter(set_from_records(New(call.pat.cls, call.pat.alt, PARAMS),
                                        records, NoLim, PARAMS), "duration")
           ELSE set_from_records(New(call.pat.cls, call.pat.alt, PARAMS),
                                 records, NoLim, PARAMS),
           PARAMS))
    /\ call' = [call EXCEPT !.op = "or"]
    /\ UNCHANGED <<records, PARAMS, collections, ret, conf, out, run, scans, reader, cells>>

NextSeq ==
    \/ AppendStream
    \/ RemoveInstantaneous
    \/ \E attr \in Attrs : ReadStat(attr)
    \/ \E read \in BOOLEAN : Union(read)

SpecSeq == InitSeq /\ [][NextSeq]_vars


\* ------------------------------------------- the two-histories specification
\* One process constructs CellHistory objects one after the other, each
\* with its own parameters, filament end, output path, logger and streams,
\* and then takes a report of a region of one of them, its plots hidden.
MaxCells == 2
CellRecords(version) ==
    {<<>>, <<Plain(<<S, G, P, S, G>>, Ones(3), Zeros(4), version)>>}

InitCells ==
    /\ cells = <<>>
    /\ conf = Unset
    /\ PARAMS = None
    /\ records = <<>>
    /\ m = NoObj
    /\ call = NoCall
    /\ collections = NoObj
    /\ u = NoObj
    /\ ret = NoObj
    /\ out = NoOut
    /\ run = NoObj
    /\ scans = NoObj
    /\ reader = NoObj

\* CellHistory(params, rind, end, paths, logger): the object keeps its
\* arguments and its streams, EventCollections.initialise sets them on the
\* classes, and the catalog of every region is built.
CellHistory(params, end, data_out, logger, recs) ==
    [params |-> params, end |-> end, data_out |-> data_out, logger |-> logger,
     records |-> recs, collections |-> Collections(recs, params)]
ConstructCell(version, end) ==
    /\ Len(cells) < MaxCells
    /\ \E recs \in CellRecords(version) :
         /\ cells' = Append(cells,
                CellHistory(Params(version, MaxDist), end,
                            <<"data_out", Len(cells) + 1>>,
                            <<"logger", Len(cells) + 1>>, recs))
         /\ records' = recs
    /\ conf' = initialise(Params(version, MaxDist), end,
                          <<"data_out", Len(cells) + 1>>,
                          <<"logger", Len(cells) + 1>>)
    /\ PARAMS' = Params(version, MaxDist)
    /\ call' = [op |-> "CellHistory", cell |-> Len(cells) + 1]
    /\ UNCHANGED <<m, collections, u, ret, out, run, scans, reader>>

\* cells[k].collections[n].report_by_type(show), the first report the
\* process takes: self.END, self.PARAMS, self.path_out and self.logger are
\* read from the class.
ReportedOf(k, n, show, r) ==
    /\ ret' = IF IsExc(r) THEN r ELSE r.ret
    /\ cells' = IF IsExc(r) THEN cells
                ELSE [cells EXCEPT ![k].collections[n] = r.self]
    /\ out' = IF IsExc(r) THEN out
              ELSE [log |-> out.log \o r.log, pie |-> out.pie \o r.pie]
    /\ call' = [op |-> "report_by_type", cell |-> k, region |-> n,
                show |-> show, under |-> conf.EventCollections]
    /\ UNCHANGED <<records, PARAMS, m, collections, u, conf, run, scans, reader>>
ReportCell(k, n, show) ==
    /\ call.op = "CellHistory"
    /\ ret = NoObj
    /\ k \in 1..Len(cells)
    /\ ReportedOf(k, n, show,
                  report_by_type(cells[k].collections[n], show,
                                 conf.EventCollections.END))

NextCells ==
    \/ \E version \in Versions, end \in Ends : ConstructCell(version, end)
    \/ \E k \in 1..MaxCells, n \in RegionNames : ReportCell(k, n, FALSE)

SpecCells == InitCells /\ [][NextCells]_vars


\* ------------------------------------------------------------ the claims
\* What the claims say of a scan, stated from the streams alone.
WidthOf(cls) == CASE cls = "Single" -> 1 [] cls = "Double" -> 2 [] cls = "Triple" -> 3
At(arr, i) == arr[i + 1]
\* The w + 1 codes of the pattern are found at index i of stream f.
CodesAt(f, i, w, codes) ==
    /\ At(f.state_fr, i) = codes[1]
    /\ \A k \in 0..(w - 1) : At(f.state_to, i + k) = codes[k + 2]
\* min <= distance-to-center at i < max, the region [0, +infinity) when no
\* region is given.
InRegion(f, i, dist_lim) ==
    IF dist_lim = NoLim THEN At(f.dist0, i) >= 0
    ELSE /\ dist_lim[1] = Fin(dist_lim[1][2]) /\ At(f.dist0, i) >= dist_lim[1][2]
         /\ (dist_lim[2] = Inf \/ At(f.dist0, i) < dist_lim[2][2])
\* The (stream j, index i) pairs at which the pattern is found in the region.
Matched(recs, w, codes, dist_lim) ==
    {ji \in UNION {{<<j, i>> : i \in 0..(Len(recs[j + 1].time) - w - 1)} :
                     j \in 0..(Len(recs) - 1)} :
        /\ CodesAt(recs[ji[1] + 1], ji[2], w, codes)
        /\ InRegion(recs[ji[1] + 1], ji[2], dist_lim)}
Elapsed(recs, ji, w) ==
    At(recs[ji[1] + 1].time, ji[2] + w) - At(recs[ji[1] + 1].time, ji[2])
\* The (fi, inds) pairs an Occurrence Set holds, as a set and as a sequence.
PairSeq(self) == [k \in 1..Len(self.a.inds) |-> <<self.a.fi[k], self.a.inds[k]>>]
Pairs(self) == {PairSeq(self)[k] : k \in 1..Len(self.a.inds)}
Scanned == call.op = "set_from_records"
CallCodes == [k \in 1..Len(call.s) |-> CodeOf(call.s[k])]

\* C1: set_from_records produces an occurrence for exactly the (stream j,
\* index i) with 0 <= i < len(stream j) - w at which the pattern's codes are
\* found, the distance-to-center at i lies in [min, max) (in [0, +infinity)
\* when no region is given) and time[i+w] != time[i]; each of them once.
C1_ScanExact ==
    Scanned =>
        /\ ~IsExc(m)
        /\ Len(m.a.fi) = Len(m.a.inds)
        /\ Pairs(m) = {ji \in Matched(records, WidthOf(call.cls), CallCodes,
                                      call.dist_lim) :
                          Elapsed(records, ji, WidthOf(call.cls)) # 0}
        /\ Cardinality(Pairs(m)) = Len(m.a.inds)
\* A scan over a bounded region dropped a match outside it and kept one inside.
C1_Witness ==
    /\ Scanned /\ ~IsExc(m)
    /\ call.dist_lim # NoLim
    /\ Len(m.a.inds) > 0
    /\ Matched(records, WidthOf(call.cls), CallCodes, NoLim)
         # Matched(records, WidthOf(call.cls), CallCodes, call.dist_lim)

\* The scan was made by a matcher of single.py or triple.py.
ScannedSrc == Scanned /\ call.cls \in {"Single", "Triple"}

\* C2: after set_from_records of a Single or a Triple no occurrence held has
\* time[i+w] = time[i], and every matched occurrence of non-zero duration is
\* still held.
C2_NoInstantaneous ==
    ScannedSrc =>
        /\ ~IsExc(m)
        /\ \A k \in 1..Len(m.a.inds) :
             /\ m.a.dtime[k] # 0
             /\ Elapsed(records, PairSeq(m)[k], m.WIDTH) # 0
        /\ \A ji \in Matched(records, WidthOf(call.cls), CallCodes, call.dist_lim) :
             Elapsed(records, ji, WidthOf(call.cls)) # 0 => ji \in Pairs(m)
\* Every match of the scan had a duplicate timestamp: none survives.
C2_Witness ==
    /\ ScannedSrc /\ ~IsExc(m)
    /\ Matched(records, WidthOf(call.cls), CallCodes, call.dist_lim) # {}
    /\ num(m) = 0
\* A scan that kept one match and removed another.
C2_WitnessMixed ==
    /\ ScannedSrc /\ ~IsExc(m)
    /\ num(m) > 0
    /\ Cardinality(Matched(records, WidthOf(call.cls), CallCodes, call.dist_lim))
         > num(m)

\* C3: every index i an occurrence holds satisfies 0 <= i and i + w < stream
\* length; a stream with fewer than w + 1 records contributes no occurrence
\* and the scan does not raise.
C3_WidthConsistent ==
    Scanned =>
        /\ ~IsExc(m)
        /\ \A k \in 1..Len(m.a.inds) :
             /\ 0 <= m.a.inds[k]
             /\ m.a.inds[k] + m.WIDTH < records[m.a.fi[k] + 1].numrec
        /\ \A j \in 0..(Len(records) - 1) :
             records[j + 1].numrec < WidthOf(call.cls) + 1
                => \A k \in 1..Len(m.a.fi) : m.a.fi[k] # j
\* A scan took the last index a window fits at, beside a stream too short
\* for the pattern.
C3_Witness ==
    /\ Scanned /\ ~IsExc(m)
    /\ \E k \in 1..Len(m.a.inds) :
         m.a.inds[k] + m.WIDTH = records[m.a.fi[k] + 1].numrec - 1
C3_WitnessShort ==
    /\ Scanned /\ ~IsExc(m)
    /\ \E j \in 1..Len(records) :
         records[j].numrec > 0 /\ records[j].numrec < WidthOf(call.cls) + 1

\* A scan of a four-code pattern found it, with no region given.
C1_WitnessTriple ==
    /\ Scanned /\ ~IsExc(m)
    /\ call.cls = "Triple" /\ call.dist_lim = NoLim
    /\ Len(m.a.inds) > 0

\* --------------------------------------------------- claims on the catalog
\* One occurrence: the entries at position k of every array of the data slice.
Row(self, k) == [key \in DataKeys(self) |-> self.a[key][k]]
\* The multiset of the occurrences an Occurrence Set holds.
Content(self) ==
    LET rows == {Row(self, k) : k \in 1..num(self)}
    IN  [r \in rows |-> Cardinality({k \in 1..num(self) : Row(self, k) = r})]
RECURSIVE BagSum(_)
BagSum(bags) ==
    IF bags = {} THEN EmptyBag
    ELSE LET b == CHOOSE x \in bags : TRUE IN b (+) BagSum(bags \ {b})
RECURSIVE Sum(_, _)
Sum(f, set) ==
    IF set = {} THEN 0
    ELSE LET x == CHOOSE y \in set : TRUE IN f[x] + Sum(f, set \ {x})

Built == call.op = "collections"
\* No constructor, scan or union of the catalogs raised.
Sound(cs) ==
    \A n \in RegionNames :
        /\ \A f \in Fields(PureS) : ~IsExc(cs[n].pure_s[f])
        /\ \A f \in Fields(PureD) : ~IsExc(cs[n].pure_d[f])
        /\ \A f \in Fields(PureT) : ~IsExc(cs[n].pure_t[f])
        /\ \A c \in {"shrinks", "grows", "pauses", "sg", "gs", "gps"} :
             ~IsExc(cs[n][c])
\* The elementary sequence of pattern f in catalog c.
Pure(c, f) ==
    CASE Len(f) = 2 -> c.pure_s[f]
      [] Len(f) = 3 -> c.pure_d[f]
      [] Len(f) = 4 -> c.pure_t[f]
ClsOf(f) == CASE Len(f) = 2 -> "Single" [] Len(f) = 3 -> "Double" [] Len(f) = 4 -> "Triple"
\* The patterns of one table whose last letters are `tail`.
EndingIn(tup, tail) ==
    {f \in Fields(tup) :
        /\ Len(f) > Len(tail)
        /\ \A k \in 1..Len(tail) : f[Len(f) - Len(tail) + k] = tail[k]}
\* Category cat of catalog c holds exactly the occurrences of the patterns fs.
HoldsExactly(c, cat, fs) ==
    /\ Content(cat) = BagSum({Content(Pure(c, f)) : f \in fs})
    /\ num(cat) = Sum([f \in fs |-> num(Pure(c, f))], fs)
    /\ Pairs(cat) = UNION {Pairs(Pure(c, f)) : f \in fs}

\* C7: for every one- and three-event pattern of the catalog (the matchers of
\* single.py and triple.py), the occurrences matched over
\* [0, a) together with those matched over [a, +infinity) are, as a multiset,
\* exactly the occurrences matched with no region filter, and no occurrence
\* is matched over both regions.
C7_RegionPartition ==
    Built =>
        /\ Sound(collections)
        /\ \A f \in Fields(PureS) \cup Fields(PureT) :
             LET unfiltered == set_from_records(New(ClsOf(f), f, PARAMS), records,
                                                NoLim, PARAMS)
                 soma == Pure(collections.soma, f)
                 lamella == Pure(collections.lamella, f)
             IN  /\ ~IsExc(unfiltered)
                 /\ Content(soma) (+) Content(lamella) = Content(unfiltered)
                 /\ Pairs(soma) \cap Pairs(lamella) = {}
                 /\ Pairs(soma) \cup Pairs(lamella) = Pairs(unfiltered)
                 /\ num(soma) + num(lamella) = num(unfiltered)
\* A pattern was matched on both sides of the radius a.
C7_Witness ==
    /\ Built /\ Sound(collections)
    /\ \E f \in Fields(PureS) :
         /\ num(Pure(collections.soma, f)) > 0
         /\ num(Pure(collections.lamella, f)) > 0

\* A three-event pattern was matched beyond the radius a.
C7_WitnessTriple ==
    /\ Built /\ Sound(collections)
    /\ \E f \in Fields(PureT) :
         /\ num(Pure(collections.lamella, f)) > 0
         /\ num(Pure(collections.soma, f)) = 0

\* C9: in every region, shrinks holds exactly the occurrences of gs, ps and
\* cs, grows those of every one-event pattern of the catalog ending in
\* growing (sg, pg, cg), pauses those of every one ending in paused (gp,
\* sp); each count is the sum of its patterns' counts, and no occurrence of
\* a pattern ending in depolymerized is in a base category.
C9_BaseCategories ==
    Built =>
        /\ Sound(collections)
        /\ \A n \in RegionNames :
             LET c == collections[n]
             IN  /\ HoldsExactly(c, c.shrinks,
                                 {<<"g","s">>, <<"p","s">>, <<"c","s">>})
                 /\ EndingIn(PureS, <<"s">>) = {<<"g","s">>, <<"p","s">>, <<"c","s">>}
                 /\ HoldsExactly(c, c.grows, EndingIn(PureS, <<"g">>))
                 /\ EndingIn(PureS, <<"g">>) = {<<"s","g">>, <<"p","g">>, <<"c","g">>}
                 /\ HoldsExactly(c, c.pauses, EndingIn(PureS, <<"p">>))
                 /\ \A f \in EndingIn(PureS, <<"d">>) :
                      Pairs(Pure(c, f)) \cap
                        (Pairs(c.shrinks) \cup Pairs(c.grows) \cup Pairs(c.pauses)) = {}
\* The three ways into shrinking each occurred in one cell.
C9_Witness ==
    /\ Built /\ Sound(collections)
    /\ \A f \in EndingIn(PureS, <<"s">>) : num(Pure(collections.cytosol, f)) > 0
    /\ num(collections.cytosol.shrinks) = 3
\* A depolymerization occurred beside a shrink.
C9_WitnessDepolymerized ==
    /\ Built /\ Sound(collections)
    /\ \E f \in EndingIn(PureS, <<"d">>) : num(Pure(collections.cytosol, f)) > 0
    /\ num(collections.cytosol.shrinks) > 0

\* C10: in every region, gs holds exactly the occurrences of the two-event
\* patterns ending in growing, shrinking (sgs, pgs, cgs), sg those ending in
\* shrinking, growing (gsg, psg, csg), gps those of sgps and cgps; each count
\* is the sum of the alternatives' counts, and no occurrence of gps, cgp or
\* sgp is in a two-event compound.
C10_Compounds ==
    Built =>
        /\ Sound(collections)
        /\ \A n \in RegionNames :
             LET c == collections[n]
                 rest == Fields(PureD) \ (EndingIn(PureD, <<"g","s">>)
                                          \cup EndingIn(PureD, <<"s","g">>))
             IN  /\ HoldsExactly(c, c.gs, EndingIn(PureD, <<"g","s">>))
                 /\ EndingIn(PureD, <<"g","s">>)
                      = {<<"s","g","s">>, <<"p","g","s">>, <<"c","g","s">>}
                 /\ HoldsExactly(c, c.sg, EndingIn(PureD, <<"s","g">>))
                 /\ EndingIn(PureD, <<"s","g">>)
                      = {<<"g","s","g">>, <<"p","s","g">>, <<"c","s","g">>}
                 /\ HoldsExactly(c, c.gps, Fields(PureT))
                 /\ Fields(PureT) = {<<"s","g","p","s">>, <<"c","g","p","s">>}
                 /\ rest = {<<"g","p","s">>, <<"c","g","p">>, <<"s","g","p">>}
                 /\ c.gs.WIDTH = 2 /\ c.sg.WIDTH = 2 /\ c.gps.WIDTH = 3
                 /\ \A f \in rest :
                      Pairs(Pure(c, f)) \cap (Pairs(c.gs) \cup Pairs(c.sg)) = {}
\* Two alternatives of one compound occurred in one cell.
C10_Witness ==
    /\ Built /\ Sound(collections)
    /\ num(collections.cytosol.pure_d[<<"s","g","s">>]) > 0
    /\ num(collections.cytosol.pure_d[<<"p","g","s">>]) > 0
    /\ num(collections.cytosol.gs) = 2
\* Both alternatives of the three-event compound occurred, beside a
\* two-event pattern that enters no compound.
C10_WitnessTriple ==
    /\ Built /\ Sound(collections)
    /\ \A f \in Fields(PureT) : num(collections.cytosol.pure_t[f]) > 0
    /\ num(collections.cytosol.pure_d[<<"g","p","s">>]) > 0

\* ----------------------------------------------- claims on the composition
Composed == call.op \in {"compose", "read"}
WasRead == call.op = "read"
\* The Stats a read of attr returns for an object, or the exception raised.
StatsOf(self, attr) ==
    LET after == Getter(self, attr)
    IN  IF IsExc(after) THEN after ELSE Cached(after, attr)
\* (n_A * mean_A + n_B * mean_B) / (n_A + n_B), an empty operand having
\* weight zero.
WeightedMean(nA, meanA, nB, meanB) ==
    RatDiv(RatAdd(IF nA = 0 THEN RatInt(0) ELSE RatMul(RatInt(nA), meanA),
                  IF nB = 0 THEN RatInt(0) ELSE RatMul(RatInt(nB), meanB)),
           RatInt(nA + nB))

\* C4: (A | B).num() = A.num() + B.num() for every two Occurrence Sets of
\* one width, and A | A holds every occurrence of A twice.
C4_UnionAdditive ==
    Composed =>
        /\ \A k \in DOMAIN u : ~IsExc(u[k])
        /\ num(u.xy) = num(u.x) + num(u.y)
        /\ num(u.yx) = num(u.y) + num(u.x)
        /\ num(u.xy_z) = num(u.x) + num(u.y) + num(u.z)
        /\ num(u.xx) = 2 * num(u.x)
        /\ \A key \in DataKeys(u.x) : Len(u.xx.a[key]) = 2 * num(u.x)
        /\ Content(u.xx) = Content(u.x) (+) Content(u.x)
\* Two non-empty sets of different patterns were united, and a non-empty
\* set was united with itself.
C4_Witness ==
    /\ call.op = "compose"
    /\ call.sx # call.sy
    /\ num(u.x) > 0 /\ num(u.y) > 0
    /\ num(u.xx) > num(u.x)

\* C5: when a statistic of A | B is read for disjoint A and B, its mean is
\* (n_A * mean_A + n_B * mean_B) / (n_A + n_B) of the means read from A and
\* from B, an empty operand weighing nothing; with one occurrence in each
\* the duration's mean is the simple average of the two durations.
C5_UnionMean ==
    (WasRead /\ call.slot = "xy" /\ call.sx # call.sy /\ ~IsExc(ret)) =>
        LET a == StatsOf(u.x, call.attr)
            b == StatsOf(u.y, call.attr)
        IN  /\ ~IsExc(a) /\ ~IsExc(b)
            /\ Pairs(u.x) \cap Pairs(u.y) = {}
            /\ num(u.x) + num(u.y) > 0 =>
                 ret.avg = WeightedMean(num(u.x), a.avg, num(u.y), b.avg)
            /\ num(u.x) + num(u.y) = 0 => isnan(ret.avg)
            /\ (call.attr = "duration" /\ num(u.x) = 1 /\ num(u.y) = 1) =>
                 ret.avg = Rat(u.x.a.dtime[1] + u.y.a.dtime[1], 2)
\* The mean of a union of operands of different counts and different means
\* was read.
C5_Witness ==
    /\ WasRead /\ call.slot = "xy" /\ call.sx # call.sy /\ ~IsExc(ret)
    /\ num(u.x) > 0 /\ num(u.y) > 0 /\ num(u.x) # num(u.y)
    /\ StatsOf(u.x, call.attr).avg # StatsOf(u.y, call.attr).avg
\* The duration of a union of two single occurrences of different durations
\* was read.
C5_WitnessPair ==
    /\ WasRead /\ call.slot = "xy" /\ call.sx # call.sy /\ ~IsExc(ret)
    /\ call.attr = "duration"
    /\ num(u.x) = 1 /\ num(u.y) = 1
    /\ u.x.a.dtime[1] # u.y.a.dtime[1]
\* The mean of a union with an empty operand was read.
C5_WitnessEmptyOperand ==
    /\ WasRead /\ call.slot = "xy" /\ call.sx # call.sy /\ ~IsExc(ret)
    /\ num(u.x) = 0 /\ num(u.y) > 0

\* C6: A | B and B | A hold the same multiset of occurrences, and so do
\* (A | B) | C and A | (B | C); their counts are equal, and every statistic
\* read from the one equals, in mean and in standard deviation (held as its
\* square), the statistic read from the other.
C6_UnionAssocComm ==
    Composed =>
        /\ \A k \in DOMAIN u : ~IsExc(u[k])
        /\ Content(u.xy) = Content(u.yx)
        /\ Content(u.xy_z) = Content(u.x_yz)
        /\ num(u.xy) = num(u.yx)
        /\ num(u.xy_z) = num(u.x_yz)
        /\ \A attr \in Attrs :
             /\ StatsOf(u.xy, attr) = StatsOf(u.yx, attr)
             /\ StatsOf(u.xy_z, attr) = StatsOf(u.x_yz, attr)
\* Three non-empty sets were united in both groupings, the two unions of the
\* first two in different orders.
C6_Witness ==
    /\ call.op = "compose"
    /\ num(u.x) > 0 /\ num(u.y) > 0 /\ num(u.z) > 0
    /\ u.xy.a.dtime # u.yx.a.dtime
    /\ call.sx # call.sy /\ call.sz # call.sx
\* The same for sets of three-event patterns.
C6_WitnessTriple ==
    /\ call.op = "compose" /\ call.cls = "Triple"
    /\ num(u.x) > 0 /\ num(u.y) > 0
    /\ u.xy.a.fi # u.yx.a.fi

\* C8: reading any of duration, elongation, velocity and reorientation from
\* a scanned Occurrence Set with zero occurrences returns NaN and does not
\* raise, under either schema version.
C8_EmptyNaN ==
    (WasRead /\ call.slot = "x" /\ num(u.x) = 0) =>
        /\ ~IsExc(ret)
        /\ isnan(ret.avg) /\ isnan(ret.std)
\* Under the newer schema, and for the statistics held under both schemas,
\* a read from an empty Occurrence Set returns NaN.
C8_EmptyNaNWhereHeld ==
    (WasRead /\ call.slot = "x" /\ num(u.x) = 0
       /\ (PARAMS.history_version = 2 \/ call.attr # "reorientation")) =>
        /\ ~IsExc(ret)
        /\ isnan(ret.avg) /\ isnan(ret.std)
\* Under the older schema the read of reorientation raises.
C8_ReorientationRaises ==
    (WasRead /\ PARAMS.history_version = 1 /\ call.attr = "reorientation") =>
        ret = Raise("AttributeError")
\* Reads from sets left empty by the region, and by the removal of
\* instantaneous occurrences.
C8_WitnessRegion ==
    /\ WasRead /\ call.slot = "x" /\ num(u.x) = 0 /\ ~IsExc(ret)
    /\ Matched(records, WidthOf(call.cls), Codes(call.sx), NoLim) # {}
    /\ Matched(records, WidthOf(call.cls), Codes(call.sx), OpsLim) = {}
C8_WitnessInstantaneous ==
    /\ WasRead /\ call.slot = "x" /\ num(u.x) = 0 /\ ~IsExc(ret)
    /\ Matched(records, WidthOf(call.cls), Codes(call.sx), OpsLim) # {}
C8_WitnessRaised ==
    /\ WasRead /\ call.slot = "x" /\ num(u.x) = 0
    /\ IsExc(ret)

\* ---------------------------------------------------- claims on the reports
WasReported == call.op = "report_by_type" /\ ~IsExc(ret)
CyclesTaken == WasReported /\ conf.EventCollections.END # 0
\* The summary of the reported region and the catalog it was taken of.
Res == ret[call.region]
Cat == collections[call.region]
\* The mean duration of the occurrences of a sequence, NaN of none.
MeanDuration(self) ==
    IF Len(self.a.dtime) = 0 THEN NaN ELSE RatMean(Rats(self.a.dtime))
VarDuration(self) ==
    IF Len(self.a.dtime) = 0 THEN NaN ELSE RatVar(Rats(self.a.dtime))
Sum3(a, b, c) == RatAdd(RatAdd(a, b), c)
AllNaN(tf) == \A k \in DOMAIN tf : isnan(tf[k])

\* C11: in the uncorrelated cycle report the cycle duration is the sum of
\* the mean durations of the categories growth, shrink and pause and each
\* time fraction is the mean duration of its phase divided by that sum;
\* when a phase has no mean duration (NaN), or the sum is zero, the cycle
\* duration's fractions are all NaN.
C11_UncorrelatedCycle ==
    CyclesTaken =>
      LET g == MeanDuration(Cat.grows)
          s == MeanDuration(Cat.shrinks)
          p == MeanDuration(Cat.pauses)
          cu == Res.cycle_uncorrelated
      IN  IF isnan(g) \/ isnan(s) \/ isnan(p)
          THEN isnan(cu.duration.avg) /\ AllNaN(cu.time_fraction)
          ELSE /\ cu.duration.avg = Sum3(g, s, p)
               /\ IF Sum3(g, s, p)[1] = 0
                  THEN AllNaN(cu.time_fraction)
                  ELSE /\ cu.time_fraction.growth = RatDiv(g, Sum3(g, s, p))
                       /\ cu.time_fraction.shrink = RatDiv(s, Sum3(g, s, p))
                       /\ cu.time_fraction.pause = RatDiv(p, Sum3(g, s, p))
\* A region where the three phases have different mean durations.
C11_Witness ==
    /\ CyclesTaken
    /\ ~isnan(MeanDuration(Cat.grows)) /\ ~isnan(MeanDuration(Cat.pauses))
    /\ ~isnan(MeanDuration(Cat.shrinks))
    /\ MeanDuration(Cat.grows) # MeanDuration(Cat.shrinks)
    /\ Res.cycle_uncorrelated.time_fraction.growth
         = RatDiv(MeanDuration(Cat.grows),
                  Sum3(MeanDuration(Cat.grows), MeanDuration(Cat.shrinks),
                       MeanDuration(Cat.pauses)))
\* A region with growth and shrink but no pause: no fraction is defined.
C11_WitnessNoPause ==
    /\ CyclesTaken
    /\ ~isnan(MeanDuration(Cat.grows)) /\ ~isnan(MeanDuration(Cat.shrinks))
    /\ isnan(MeanDuration(Cat.pauses))
    /\ AllNaN(Res.cycle_uncorrelated.time_fraction)

\* The count-weighted mean and the square of the combined standard deviation
\* of two sets with occurrences.
Weighted(nA, a, nB, b) ==
    RatDiv(RatAdd(RatMul(RatInt(nA), a), RatMul(RatInt(nB), b)), RatInt(nA + nB))
CombinedVar(nA, varA, nB, varB) ==
    RatDiv(RatAdd(RatMul(RatInt(nA * nA), varA), RatMul(RatInt(nB * nB), varB)),
           RatInt((nA + nB) * (nA + nB)))

\* C12: the g0s cycle duration of the correlated report is the mean of the
\* gs and gps mean durations weighted by their numbers of occurrences, with
\* standard deviation sqrt((n_gs * std_gs)^2 + (n_gps * std_gps)^2) /
\* (n_gs + n_gps) (compared by its square); it is defined only when gs and
\* gps both have occurrences, and its average and deviation are NaN
\* otherwise.
C12_G0sDuration ==
    CyclesTaken =>
      LET d == Res.cycle_correlated.g0s.duration
      IN  IF num(Cat.gs) > 0 /\ num(Cat.gps) > 0
          THEN /\ d.avg = Weighted(num(Cat.gs), MeanDuration(Cat.gs),
                                   num(Cat.gps), MeanDuration(Cat.gps))
               /\ d.std = CombinedVar(num(Cat.gs), VarDuration(Cat.gs),
                                      num(Cat.gps), VarDuration(Cat.gps))
          ELSE isnan(d.avg) /\ isnan(d.std)
\* More gs than gps occurrences, of another mean duration.
C12_Witness ==
    /\ CyclesTaken
    /\ num(Cat.gps) > 0 /\ num(Cat.gs) > num(Cat.gps)
    /\ MeanDuration(Cat.gs) # MeanDuration(Cat.gps)
    /\ VarDuration(Cat.gs)[1] # 0
    /\ ~isnan(Res.cycle_correlated.g0s.duration.avg)
\* gps occurrences but no gs occurrence.
C12_WitnessNoGs ==
    /\ CyclesTaken
    /\ num(Cat.gs) = 0 /\ num(Cat.gps) > 0
    /\ isnan(Res.cycle_correlated.g0s.duration.avg)

\* C13: the time fractions of the g0s cycle are the mean durations of the
\* base categories growth, shrink and pause, each divided by the g0s cycle
\* duration; a fraction is NaN when the g0s duration is NaN or zero and when
\* the mean duration of its category is NaN.
C13_G0sFractions ==
    CyclesTaken =>
      LET g0s == Res.cycle_correlated.g0s
          base == [growth |-> MeanDuration(Cat.grows),
                   shrink |-> MeanDuration(Cat.shrinks),
                   pause |-> MeanDuration(Cat.pauses)]
      IN  \A k \in {"growth", "shrink", "pause"} :
            IF isnan(g0s.duration.avg) \/ g0s.duration.avg[1] = 0 \/ isnan(base[k])
            THEN isnan(g0s.time_fraction[k])
            ELSE g0s.time_fraction[k] = RatDiv(base[k], g0s.duration.avg)
\* A g0s cycle with all three fractions defined, growth and shrink apart.
C13_Witness ==
    /\ CyclesTaken
    /\ ~isnan(Res.cycle_correlated.g0s.duration.avg)
    /\ \A k \in {"growth", "shrink", "pause"} :
          ~isnan(Res.cycle_correlated.g0s.time_fraction[k])
    /\ Res.cycle_correlated.g0s.time_fraction.growth
         # Res.cycle_correlated.g0s.time_fraction.shrink
    /\ MeanDuration(Cat.grows) # MeanDuration(Cat.gs)
\* Base categories with occurrences, but no g0s duration.
C13_WitnessNoCycle ==
    /\ CyclesTaken
    /\ ~isnan(MeanDuration(Cat.grows))
    /\ isnan(Res.cycle_correlated.g0s.duration.avg)
    /\ AllNaN(Res.cycle_correlated.g0s.time_fraction)
\* A g0s duration, but a base category without occurrences.
C13_WitnessNoPause ==
    /\ CyclesTaken
    /\ ~isnan(Res.cycle_correlated.g0s.duration.avg)
    /\ isnan(MeanDuration(Cat.pauses))
    /\ isnan(Res.cycle_correlated.g0s.time_fraction.pause)
    /\ ~isnan(Res.cycle_correlated.g0s.time_fraction.growth)

\* The logger received the line msg with the value v; vis.pie drew for title.
Logged(msg, v) == \E k \in 1..Len(out.log) : out.log[k] = Info(msg, v)
PieDrawn(title) == \E k \in 1..Len(out.pie) : out.pie[k].title = title
\* A denominator a ratio cannot be taken by.
Degenerate(x) == isnan(x) \/ x[1] = 0

\* C14: in both cycle reports, whatever the category sets hold (nothing at
\* all included), a ratio whose denominator is zero or NaN is NaN and is
\* logged as such, no exception is raised, and the pie of the fractions of
\* that denominator is not drawn.
C14_DegenerateRatios ==
    (call.op = "report_by_type" /\ conf.EventCollections.END # 0) =>
      /\ ~IsExc(ret)
      /\ Degenerate(Res.cycle_uncorrelated.duration.avg) =>
           /\ AllNaN(Res.cycle_uncorrelated.time_fraction)
           /\ Logged("Uncorrelated growth time fraction", NaN)
           /\ Logged("Uncorrelated shrink time fraction", NaN)
           /\ Logged("Uncorrelated pause time fraction", NaN)
           /\ ~PieDrawn("Uncorrelated time fractions")
      /\ \A c \in {"sg", "gs"} :
           Degenerate(Res.cycle_correlated[c].duration.avg) =>
             /\ AllNaN(Res.cycle_correlated[c].time_fraction)
             /\ Logged("Correlated growth time fraction " \o c \o " cycle", NaN)
             /\ Logged("Correlated shrink time fraction " \o c \o " cycle", NaN)
      /\ Degenerate(Res.cycle_correlated.g0s.duration.avg) =>
           /\ AllNaN(Res.cycle_correlated.g0s.time_fraction)
           /\ Logged("Correlated growth time fraction g0s cycle", NaN)
           /\ Logged("Correlated shrink time fraction g0s cycle", NaN)
           /\ Logged("Correlated pause time fraction g0s cycle", NaN)
           /\ ~PieDrawn("Correlated time fractions")
\* Every category set empty: nothing is drawn, every fraction is logged NaN.
C14_Witness ==
    /\ CyclesTaken
    /\ \A c \in {"shrinks", "grows", "pauses", "sg", "gs", "gps"} : num(Cat[c]) = 0
    /\ out.pie = <<>>
    /\ Logged("Uncorrelated pause time fraction", NaN)
    /\ Logged("Correlated pause time fraction g0s cycle", NaN)
\* The uncorrelated pie drawn, the correlated one left out.
C14_WitnessOnePie ==
    /\ CyclesTaken
    /\ PieDrawn("Uncorrelated time fractions")
    /\ ~PieDrawn("Correlated time fractions")
    /\ isnan(Res.cycle_correlated.g0s.duration.avg)

\* ---------------------------------------------------- claims on the patterns
Constructed == call.op = "new"
\* The letters of the states, in either case.
StateLetters ==
    {"o", "g", "s", "p", "c", "d", "O", "G", "S", "P", "C", "D"}
\* The attributes that hold the pattern of a matcher of class cls.
PatKeys(cls) ==
    IF cls = "Single" THEN <<"fr", "to">> ELSE <<"fr", "im1", "im2", "to">>

\* C15, as stated: a constructor handed a string with a letter other than
\* o, g, s, p, c, d in either case raises.
C15_UnknownLetterRaises ==
    (Constructed /\ \E k \in 1..Len(call.s) : call.s[k] \notin StateLetters)
      => IsExc(m)

\* C15, amended: a constructor handed a pattern string raises, and returns
\* no matcher, when the string has another length than the width of its
\* class plus one or holds a letter whose upper-case form names no state
\* (the long s has the upper-case form S and stands for s); a matcher that is
\* returned has every pattern attribute set, and only such a matcher scans
\* streams.
C15_MalformedRaises ==
    /\ Constructed =>
         IF \/ Len(call.s) # WidthOf(call.cls) + 1
            \/ \E k \in 1..Len(call.s) :
                  call.s[k] \notin StateLetters \cup {"U+017F"}
         THEN IsExc(m)
         ELSE /\ ~IsExc(m)
              /\ num(m) = 0
              /\ \A k \in 1..Len(call.s) :
                    m.a[PatKeys(call.cls)[k]] \in {O, G, S, P, C, D}
    /\ Scanned =>
         /\ Len(call.s) = WidthOf(call.cls) + 1
         /\ \A k \in 1..Len(call.s) : call.s[k] \in StateLetters \cup {"U+017F"}
\* A string of the right length with a letter of no state: KeyError.
C15_Witness ==
    /\ Constructed /\ call.cls = "Single" /\ call.s = <<"g", "x">>
    /\ m = Raise("KeyError")
\* A string too long, and one too short, of state letters: ValueError.
C15_WitnessLength ==
    /\ Constructed /\ call.cls = "Triple" /\ call.s \in {<<"g", "S", "g">>,
                                                         <<"g", "S", "g", "S", "g">>}
    /\ m = Raise("ValueError")
\* Upper case is accepted, and the matcher scans.
C15_WitnessUpper ==
    /\ Scanned /\ call.cls = "Single" /\ call.s = <<"S", "g">>
    /\ num(m) > 0
\* The long s is taken for s.
C15_WitnessLongS ==
    /\ Constructed /\ call.s = <<"U+017F", "g">> /\ ~IsExc(m)
    /\ m.a.fr = S

\* -------------------------------------------- claims on the schema versions
\* C16: a request for the reorientation statistic of data of
\* history_version 1 is never an error: a read of the property returns
\* without raising.
C16_NeverAnError ==
    (WasRead /\ PARAMS.history_version = 1 /\ call.attr = "reorientation")
      => ~IsExc(ret)
\* The part of C16 that holds: under history_version 1 report_by_type
\* returns its summary without raising, no entry of it holds reorientation,
\* and no sequence of the catalog holds an array of reorientations.
C16_ReportOmits ==
    (call.op = "report_by_type" /\ PARAMS.history_version = 1) =>
      /\ ~IsExc(ret)
      /\ \A k \in DOMAIN Res \ {"cycle_uncorrelated", "cycle_correlated"} :
            "reorientation" \notin DOMAIN Res[k]
      /\ \A k \in 1..Len(Elementary(Cat)) : ~HasAttr(Elementary(Cat)[k], "dornt")
      /\ \A c \in {"shrinks", "grows", "pauses"} : ~HasAttr(Cat[c], "dornt")
\* A report under history_version 1 of a region with occurrences.
C16_WitnessReport ==
    /\ call.op = "report_by_type" /\ PARAMS.history_version = 1
    /\ ~IsExc(ret)
    /\ Res["growth"].num > 0
    /\ DOMAIN Res["growth"] = {"num", "duration", "elongation", "velocity"}
\* Under history_version 2 the entry is there.
C16_WitnessVersion2 ==
    /\ call.op = "report_by_type" /\ PARAMS.history_version = 2
    /\ ~IsExc(ret)
    /\ Res["growth"].num > 0
    /\ "reorientation" \in DOMAIN Res["growth"]

\* ------------------------------------------------- claims on the diagnostics
\* The logger received the region-border warning.
Warned == \E k \in 1..Len(out.log) : out.log[k].lvl = "warning"
\* The numbers of occurrences of the elementary sequences of all widths.
AllEmpty(c) == \A k \in 1..Len(Elementary(c)) : num(Elementary(c)[k]) = 0

\* C17: report_by_type logs the region-border warning when the elementary
\* patterns of every width are all empty in the region, and logs no such
\* warning when one of them has an occurrence; the entry of an empty pattern
\* holds num = 0 and nothing else.
C17_WarningIffAllEmpty ==
    WasReported =>
      /\ Warned <=> AllEmpty(Cat)
      /\ \A k \in 1..Len(Elementary(Cat)) :
            num(Elementary(Cat)[k]) = 0
              => Res[NameOf(Elementary(Cat)[k])] = [num |-> 0]
\* The parts of C17 that hold: the warning is logged exactly when the
\* patterns of width 1 are all empty, so whenever all patterns are empty;
\* an empty pattern's entry holds num = 0 alone.
C17_WarningIffSinglesEmpty ==
    WasReported =>
      /\ Warned <=> \A f \in Fields(PureS) : num(Cat.pure_s[f]) = 0
      /\ AllEmpty(Cat) => Warned
      /\ \A k \in 1..Len(Elementary(Cat)) :
            num(Elementary(Cat)[k]) = 0
              => Res[NameOf(Elementary(Cat)[k])] = [num |-> 0]
\* A region warned about although a pattern of width 3 has an occurrence.
C17_WitnessWarnedNotEmpty ==
    /\ WasReported /\ Warned
    /\ num(Cat.pure_t[<<"s","g","p","s">>]) > 0
    /\ Res["sgps"].num > 0
\* A region with no occurrence at all, and one with occurrences of width 1.
C17_WitnessAllEmpty == WasReported /\ Warned /\ AllEmpty(Cat)
C17_WitnessNotWarned == WasReported /\ ~Warned /\ ~AllEmpty(Cat)

\* ---------------------------------------------- claims on the parallel scans
Running == DOMAIN scans = ParTasks
TaskCodes(t) == [k \in 1..Len(t.s) |-> CodeOf(t.s[k])]
\* The occurrences the scan of task t is to hold, from the streams alone.
Expected(t) ==
    {ji \in Matched(records, WidthOf(t.cls), TaskCodes(t), TaskLim(t)) :
        Elapsed(records, ji, WidthOf(t.cls)) # 0}

\* C18: the scans are independent of one another.  A pass of a scan leaves
\* every stream as it was and changes the matcher of its own task only, and
\* whatever the order in which the passes of the different scans are taken,
\* a scan that has returned holds the occurrences of its pattern in its
\* region, the same the scan holds when it runs alone.
C18_Independent ==
    /\ [](Running =>
            \A t \in ParTasks :
               scans[t].done =>
                 /\ ~IsExc(scans[t].self)
                 /\ Pairs(scans[t].self) = Expected(t)
                 /\ scans[t].self = set_from_records(New(t.cls, t.s, PARAMS),
                                                     records, TaskLim(t), PARAMS))
    /\ [][/\ records' = records
          /\ \E t \in ParTasks :
               \A t2 \in ParTasks \ {t} : scans'[t2] = scans[t2]]_vars
\* All scans have returned, two of one pattern with different occurrences.
C18_Witness ==
    /\ Running
    /\ \A t \in ParTasks : scans[t].done /\ num(scans[t].self) > 0
    /\ \E t1 \in ParTasks, t2 \in ParTasks :
          t1.s = t2.s /\ Pairs(scans[t1].self) # Pairs(scans[t2].self)
\* One scan has returned before another has begun, and the other way round.
C18_WitnessInterleaved ==
    /\ Running
    /\ Len(records) = 2
    /\ \E t1 \in ParTasks, t2 \in ParTasks, t3 \in ParTasks :
          /\ t1.region = "soma" /\ t2.region = "lamella" /\ t3.cls = "Triple"
          /\ scans[t1].j = 1 /\ ~scans[t1].done /\ num(scans[t1].self) > 0
          /\ scans[t2].done
          /\ scans[t3].j = 0
C18_WitnessReversed ==
    /\ Running
    /\ Len(records) = 2
    /\ \E t1 \in ParTasks, t2 \in ParTasks :
          /\ t1.region = "soma" /\ t2.region = "lamella"
          /\ scans[t1].done /\ scans[t2].j = 0

\* -------------------------------------------- claims on the construction
\* The catalogs built so far in the construction of a CellHistory.
BuiltSoFar == IF run.pc \in {"regions", "done"} THEN DOMAIN collections ELSE {}
\* The configuration initialise is to leave on every class.
Given == [PARAMS |-> run.params, END |-> run.end, path_out |-> "path_out",
          logger |-> "logger"]

\* C19: in the construction of a CellHistory the class-level configuration
\* (PARAMS, END, path_out, logger) of EventCollections, Single, Double and
\* Triple is set by EventCollections.initialise exactly once; no catalog or
\* matcher exists before it is set, every catalog is created under it, and
\* it does not change while the catalogs of the regions are built.
C19_ConfiguredOnce ==
    /\ [](/\ run.inits <= 1
          /\ run.inits = 0 => (conf = Unset /\ BuiltSoFar = {})
          /\ run.inits = 1 => \A c \in Classes : conf[c] = Given
          /\ run.pc = "done" => run.inits = 1
          /\ \A n \in BuiltSoFar :
                /\ ~IsExc(collections[n])
                /\ collections[n].region = n
                /\ collections[n].include_ornt = (run.params.history_version > 1)
                /\ HasAttr(collections[n].pure_s[<<"s","g">>], "dornt")
                     <=> run.params.history_version = 2)
    /\ [][run.pc = "regions" => (conf' = conf /\ PARAMS' = PARAMS
                                 /\ run'.inits = run.inits)]_vars
\* The construction has returned with the catalog of every region, one of
\* them with occurrences.
C19_Witness ==
    /\ run.pc = "done" /\ run.inits = 1
    /\ DOMAIN collections = RegionNames
    /\ \E n \in RegionNames : num(collections[n].grows) > 0
\* The classes are configured and no catalog is built yet.
C19_WitnessBefore ==
    /\ run.pc = "regions" /\ run.inits = 1
    /\ DOMAIN collections = {}
    /\ conf["Triple"].END = 0

\* ------------------------------------------ claims on the summary's shape
\* d is a dict of the keys 'duration' and 'time_fraction', the latter of the
\* keys fracs.
CycleDict(d, fracs) ==
    /\ DOMAIN d = {"duration", "time_fraction"}
    /\ {"avg", "std"} \subseteq DOMAIN d.duration
    /\ DOMAIN d.time_fraction = fracs
Phases == {"growth", "shrink", "pause"}

C20_WitnessEnd0 ==
    /\ WasReported
    /\ conf.EventCollections.END = 0
    /\ num(Cat.grows) > 0 /\ num(Cat.shrinks) > 0

\* ------------------------------------------------- claims on the reader
\* The lines of the file from the cursor on, and the line a call reads.
LinesLeft == Len(reader.f) - reader.pos
NextLine == reader.f[reader.pos + 1]
Numeric(toks) == \A k \in 1..Len(toks) : toks[k] \in Numerals

\* C21: a Reader is a forward-only cursor over the lines of its file:
\* skip_lines(n) moves the cursor n lines on and returns the last of them,
\* value(i) and array(i) move it one line on and return the i-th token of
\* that line, respectively the numbers of its tokens from the i-th on; the
\* lines readline has returned are 1, 2, ..., k in this order, k the cursor.
C21_ForwardCursor ==
    /\ [](reader.read = [k \in 1..reader.pos |-> k])
    /\ [][/\ reader'.f = reader.f
          /\ call'.op = "skip_lines" /\ 0 <= call'.arg /\ call'.arg <= LinesLeft =>
                /\ reader'.pos = reader.pos + call'.arg
                /\ call'.arg > 0 =>
                     ret' = [text |-> reader.f[reader.pos + call'.arg], nl |-> TRUE]
          /\ call'.op = "value" /\ LinesLeft > 0 =>
                /\ reader'.pos = reader.pos + 1
                /\ 0 <= call'.arg /\ call'.arg < Len(NextLine) =>
                     ret' = NextLine[call'.arg + 1]
          /\ call'.op = "array" /\ LinesLeft > 0 =>
                /\ reader'.pos = reader.pos + 1
                /\ 0 <= call'.arg /\ Numeric(NextLine) =>
                     /\ Len(ret') = Max(Len(NextLine) - call'.arg, 0)
                     /\ \A k \in 1..Len(ret') :
                           ret'[k] = Float(NextLine[call'.arg + k])]_vars
\* A value is read of the second line after a skip of the first.
C21_Witness ==
    /\ call.op = "value" /\ call.arg = 1
    /\ reader.read = <<1, 2>>
    /\ reader.f[2] = <<"x", "7.0">>
    /\ ret = "7.0"
\* An array is read from the second token on.
C21_WitnessArray ==
    /\ call.op = "array" /\ call.arg = 1
    /\ reader.read = <<1>>
    /\ reader.f[1] = <<"x", "6">>
    /\ ret = <<RatInt(6)>>
\* Two lines are skipped at once.
C21_WitnessSkip ==
    /\ call.op = "skip_lines" /\ call.arg = 2
    /\ reader.read = <<1, 2>>
    /\ ret = [text |-> <<"6">>, nl |-> TRUE]

\* ----------------------------------------- claims on the occurrence set
\* The occurrences the set holds, and for occurrence k the stream it was
\* matched in and the events it runs from and to (1-based).
Occs == 1..Len(m.a.inds)
StreamOf(k) == records[m.a.fi[k] + 1]
EvFr(k) == m.a.inds[k] + 1
EvTo(k) == m.a.inds[k] + m.WIDTH + 1
Appended == call.op = "append" /\ ~IsExc(m)

\* C22: every occurrence of index i of stream r under width w has duration
\* r.time[i+w] - r.time[i] and, as a signed integer, the length change
\* (ngrw[i+w] - ngrw[i]) - (nshr[i+w] - nshr[i]) under schema version 2 and
\* length[i+w] - length[i] else; the physical length change is that
\* integer times edge_len.
C22_DurationAndLength ==
    ~IsExc(m) =>
       \A k \in Occs :
          /\ m.a.dtime[k] = StreamOf(k).time[EvTo(k)] - StreamOf(k).time[EvFr(k)]
          /\ m.a.dlen[k] =
               IF PARAMS.history_version = 2
               THEN (StreamOf(k).ngrw[EvTo(k)] - StreamOf(k).ngrw[EvFr(k)])
                    - (StreamOf(k).nshr[EvTo(k)] - StreamOf(k).nshr[EvFr(k)])
               ELSE StreamOf(k).length[EvTo(k)] - StreamOf(k).length[EvFr(k)]
          /\ m.a.dlen_um[k] = m.a.dlen[k] * PARAMS.edge_len
\* Under version 1 a shortening was appended: its length change is negative.
C22_Witness ==
    /\ Appended
    /\ PARAMS.history_version = 1
    /\ \E k \in Occs : m.a.dlen[k] < 0 /\ m.a.dtime[k] > 0
\* Under version 2 an occurrence was appended whose counters tell another
\* length change than its lengths.
C22_WitnessCounters ==
    /\ Appended
    /\ PARAMS.history_version = 2
    /\ \E k \in Occs :
          /\ m.a.dlen[k] < 0
          /\ m.a.dlen[k] # StreamOf(k).length[EvTo(k)] - StreamOf(k).length[EvFr(k)]

\* The occurrences of no duration a set holds, each as its stream and index.
Instantaneous(self) ==
    {<<self.a.fi[k], self.a.inds[k]>> : k \in {i \in 1..Len(self.a.inds) : self.a.dtime[i] = 0}}

\* C23: the velocity of an occurrence is its physical length change by its
\* duration times 60 when the duration is not zero and exactly 0 when it
\* is; no append raises, and an occurrence of zero duration stays
\* in the set until remove_instantaneous, after which the set holds none.
C23_SafeVelocity ==
    /\ [](/\ ~IsExc(m)
          /\ \A k \in Occs :
                IF m.a.dtime[k] # 0
                THEN /\ m.a.vel[k][2] > 0
                     /\ m.a.vel[k][1] * m.a.dtime[k] = m.a.dlen_um[k] * 60 * m.a.vel[k][2]
                ELSE m.a.vel[k] = RatInt(0)
          /\ call.op = "remove_instantaneous" => Instantaneous(m) = {})
    /\ [][call'.op # "remove_instantaneous" =>
             Instantaneous(m) \subseteq Instantaneous(m')]_vars
\* An occurrence of zero duration and a length change that is not zero
\* has been appended and is in the set, with the velocity 0.
C23_Witness ==
    /\ Appended
    /\ \E k \in Occs : m.a.dtime[k] = 0 /\ m.a.dlen_um[k] # 0 /\ m.a.vel[k] = RatInt(0)
\* remove_instantaneous has discarded an occurrence and kept another.
C23_WitnessRemoved ==
    /\ call.op = "remove_instantaneous"
    /\ Len(m.a.inds) = 1
    /\ call.j = 1 /\ Len(records) = 1 /\ records[1].time[2] = 0
    /\ m.cls = "Single"

\* ------------------------------------- claims on the per-occurrence arrays
\* The arrays a set holds, and the entries of a whose duration in d is not 0.
Arrays(self) == ArrayKeys \cap DOMAIN self.a
RECURSIVE Kept(_, _)
Kept(a, d) ==
    IF a = <<>> THEN <<>>
    ELSE (IF Head(d) # 0 THEN <<Head(a)>> ELSE <<>>) \o Kept(Tail(a), Tail(d))
\* Entry k of every array is taken from the occurrence (fi[k], inds[k]).
SameOccurrence(k) ==
    /\ m.a.time[k] = StreamOf(k).time[EvFr(k)]
    /\ m.a.length[k] = StreamOf(k).length[EvFr(k)]
    /\ m.a.dtime[k] = StreamOf(k).time[EvTo(k)] - StreamOf(k).time[EvFr(k)]
    /\ m.a.dlen_um[k] = m.a.dlen[k] * PARAMS.edge_len
    /\ m.a.vel[k] = SafeVel(m.a.dlen_um[k], m.a.dtime[k])
    /\ m.a.pos_fr[k] = StreamOf(k).pos[EvFr(k)]
    /\ m.a.pos_to[k] = StreamOf(k).pos[EvTo(k)]
    /\ m.a.dist0_fr[k] = StreamOf(k).dist0[EvFr(k)]
    /\ m.a.dist0_to[k] = StreamOf(k).dist0[EvTo(k)]
    /\ m.a.dist_plm[k] = StreamOf(k).dist_plm[EvFr(k)]
    /\ m.a.dist_nuc[k] = StreamOf(k).dist_nuc[EvFr(k)]
    /\ m.a.cas[k] = StreamOf(k).cas[EvFr(k)]
    /\ PARAMS.history_version = 2 =>
         /\ m.a.ngrw[k] = StreamOf(k).ngrw[EvFr(k)]
         /\ m.a.nshr[k] = StreamOf(k).nshr[EvFr(k)]
         /\ m.a.dngrw[k] = StreamOf(k).ngrw[EvTo(k)] - StreamOf(k).ngrw[EvFr(k)]
         /\ m.a.dnshr[k] = StreamOf(k).nshr[EvTo(k)] - StreamOf(k).nshr[EvFr(k)]
         /\ m.a.dlen[k] = m.a.dngrw[k] - m.a.dnshr[k]
         /\ m.a.dornt[k] =
              ArccosDeg(Clip(Dot(StreamOf(k).ornt[EvTo(k)], StreamOf(k).ornt[EvFr(k)]), -1, 1))

\* C25: after any sequence of append, remove_instantaneous and | the
\* arrays of a set (fi .. cas, and ngrw, nshr, dngrw, dnshr, dornt under
\* version 2) all have num() entries and entry k of each is of the same
\* occurrence; the data slice is exactly the arrays, and a
\* remove_instantaneous keeps of every array the entries of the same
\* occurrences and leaves the pattern codes and cached statistics alone.
C25_ArraysAligned ==
    /\ [](~IsExc(m) =>
           /\ Arrays(m) = {"fi", "inds"}
                  \cup {DataKeysCommon[i] : i \in 1..Len(DataKeysCommon)}
                  \cup (IF PARAMS.history_version = 2
                        THEN {DataKeysV2[i] : i \in 1..Len(DataKeysV2)} ELSE {})
           /\ DataKeys(m) = Arrays(m)
           /\ \A k \in Arrays(m) : Len(m.a[k]) = num(m)
           /\ \A k \in Occs : SameOccurrence(k))
    /\ [][call'.op = "remove_instantaneous" =>
            /\ \A k \in Arrays(m) : m'.a[k] = Kept(m.a[k], m.a.dtime)
            /\ \A k \in DOMAIN m.a \ Arrays(m) : m'.a[k] = m.a[k]
            /\ DOMAIN m'.a = DOMAIN m.a
            /\ m'.cls = m.cls /\ m'.WIDTH = m.WIDTH]_vars
\* remove_instantaneous has filtered a union of two sets that held
\* occurrences of both, one of no duration, after a statistic was cached.
C25_Witness ==
    /\ call.op = "remove_instantaneous"
    /\ u # NoObj
    /\ num(u.x) > 0 /\ num(u.y) > 0
    /\ 0 < num(m) /\ num(m) < num(u.xy)
    /\ \E a \in Attrs : Cached(m, a).avg # NaN
\* An append has added the occurrences of a second stream.
C25_WitnessAppend ==
    /\ Appended
    /\ call.j = 2
    /\ \E k \in Occs : m.a.fi[k] = 0
    /\ \E k \in Occs : m.a.fi[k] = 1

\* ------------------------------------------- claims on the frame of a union
\* The set of the alternative pattern the union takes as its right operand,
\* before the operation.
Alternative ==
    set_from_records(New(call.pat.cls, call.pat.alt, PARAMS), records, NoLim, PARAMS)
\* The Stats of the entries xs, NaN when there are none.
FromData(xs, units) ==
    IF Len(xs) = 0 THEN Stats(NaN, NaN, "")
    ELSE Stats(RatMean(xs), RatVar(xs), units)
\* The set is the union as it was returned: nothing was appended or removed.
IsUnion == u # NoObj /\ \A k \in Arrays(m) : m.a[k] = u.xy.a[k]

\* C26: A | B returns a new set and leaves A and B as they were, arrays,
\* pattern codes and cached statistics; the new set holds the arrays of A
\* followed by those of B and no cached statistic, so that the statistics
\* read from it are those of the concatenated data, whether or not a
\* statistic of A or of B was read before.
C26_UnionFrame ==
    /\ [][call'.op = "or" =>
            /\ u'.x = m
            /\ u'.y \in {Alternative, Getter(Alternative, "duration")}
            /\ m' = u'.xy
            /\ \A k \in Arrays(m) : u'.xy.a[k] = m.a[k] \o u'.y.a[k]
            /\ \A a \in Attrs : Cached(u'.xy, a) = Stats(NaN, NaN, "")]_vars
    /\ [][call.op = "or" /\ call'.op = "read" =>
            CASE call'.attr = "duration" ->
                   ret' = FromData(Rats(u.x.a.dtime \o u.y.a.dtime), "sec")
              [] call'.attr = "elongation" ->
                   ret' = FromData(Rats(u.x.a.dlen_um \o u.y.a.dlen_um), "um")
              [] call'.attr = "velocity" ->
                   ret' = FromData(u.x.a.vel \o u.y.a.vel, "um/min")
              [] call'.attr = "reorientation" ->
                   IF PARAMS.history_version = 2
                   THEN ret' = FromData(Rats(u.x.a.dornt \o u.y.a.dornt), "grad")
                   ELSE IsExc(ret')]_vars
\* Both operands had their duration read before the union, both hold
\* occurrences, and the duration read from the union is that of neither.
C26_Witness ==
    /\ call.op = "read" /\ call.attr = "duration"
    /\ IsUnion
    /\ num(u.x) > 0 /\ num(u.y) > 0
    /\ u.x.a._duration.avg # NaN /\ u.y.a._duration.avg # NaN
    /\ ret.avg # NaN
    /\ ret.avg # u.x.a._duration.avg /\ ret.avg # u.y.a._duration.avg
\* Neither operand had a statistic read before the union.
C26_WitnessUnread ==
    /\ call.op = "read" /\ call.attr = "duration"
    /\ IsUnion
    /\ num(u.x) > 0 /\ num(u.y) > 0
    /\ \A a \in Attrs : Cached(u.x, a).avg = NaN /\ Cached(u.y, a).avg = NaN
    /\ ret.avg # NaN

\* --------------------------------------------- claims on disjoint merging
\* The set holds no (filament index, event index) pair twice.
EachPairOnce(self) == Cardinality(Pairs(self)) = num(self)
Categories == {"shrinks", "grows", "pauses", "sg", "gs", "gps"}

\* C27: in every region each elementary set holds a (filament index,
\* event index) pair at most once, two elementary sets of one width and
\* different codes hold no pair in common, and so each of the categories
\* shrinks, grows, pauses, sg, gs and gps holds a pair at most once.
C27_DisjointMerging ==
    Built =>
        /\ Sound(collections)
        /\ \A n \in RegionNames :
             /\ \A tup \in {PureS, PureD, PureT} :
                  \A f \in Fields(tup) :
                     /\ EachPairOnce(Pure(collections[n], f))
                     /\ \A g \in Fields(tup) \ {f} :
                          Pairs(Pure(collections[n], f))
                            \cap Pairs(Pure(collections[n], g)) = {}
             /\ \A c \in Categories : EachPairOnce(collections[n][c])
\* In one region a category was merged of three sets that each hold an
\* occurrence, at one event index of three filaments.
C27_Witness ==
    /\ Built /\ Sound(collections)
    /\ Len(records) = 3
    /\ \A f \in {<<"g","s">>, <<"p","s">>, <<"c","s">>} :
          num(Pure(collections.cytosol, f)) > 0
    /\ \E i \in 0..MaxLen : {<<j, i>> : j \in 0..2} \subseteq Pairs(collections.cytosol.shrinks)
\* Two alternatives of a two-event compound were matched in two filaments.
C27_WitnessCompound ==
    /\ Built /\ Sound(collections)
    /\ Len(records) = 2
    /\ num(collections.cytosol.pure_d[<<"s","g","s">>]) > 0
    /\ num(collections.cytosol.pure_d[<<"p","g","s">>]) > 0
    /\ Cardinality(Pairs(collections.cytosol.gs)) = 2

\* ----------------------------------------- claims on the cached statistics
\* The per-occurrence values a statistic is taken of, and its units.
ValuesOf(self, attr) ==
    CASE attr = "duration" -> Rats(self.a.dtime)
      [] attr = "elongation" -> Rats(self.a.dlen_um)
      [] attr = "velocity" -> self.a.vel
      [] attr = "reorientation" -> Rats(self.a.dornt)
UnitsOf(attr) ==
    CASE attr = "duration" -> "sec"
      [] attr = "elongation" -> "um"
      [] attr = "velocity" -> "um/min"
      [] attr = "reorientation" -> "grad"
\* The Stats of the values the set holds now.
Current(self, attr) == FromData(ValuesOf(self, attr), UnitsOf(attr))
Returned == call.op = "read" /\ ~IsExc(ret)

\* C28: under any interleaving of append, remove_instantaneous
\* and reads, a read returns the mean and deviation of the values the set
\* holds at the moment of the read, NaN when it holds none.
C28_NeverStale ==
    Returned => ret = Current(m, call.attr)
\* What the getters do: a read of a statistic that has no cached value
\* returns the mean and deviation of the values the set holds at that
\* moment (NaN when it holds none) and caches them when there are any; a
\* read of a statistic that has a cached value returns that value, and no
\* append or remove_instantaneous changes a cached value.
C28_CurrentWhenFirstRead ==
    /\ [][call'.op = "read" /\ ~IsExc(ret') =>
            /\ ret' = IF Cached(m, call'.attr).avg = NaN
                      THEN Current(m, call'.attr)
                      ELSE Cached(m, call'.attr)
            /\ Cached(m', call'.attr) = ret'
            /\ \A k \in Arrays(m) : m'.a[k] = m.a[k]]_vars
    /\ [][call'.op \in {"append", "remove_instantaneous"} /\ ~IsExc(m') =>
            \A a \in Attrs : Cached(m', a) = Cached(m, a)]_vars
\* The duration was read, occurrences were appended, and the duration read
\* again is the one cached, not that of the occurrences held.
C28_Witness ==
    /\ Returned /\ call.attr = "duration"
    /\ call.reads = 2 /\ u = NoObj
    /\ num(m) > 0
    /\ ret.avg # NaN
    /\ Current(m, "duration").avg # NaN
    /\ ret.avg # Current(m, "duration").avg
\* The first read of a statistic came after the appends and the removal and
\* returned the mean of the occurrences held.
C28_WitnessFirstRead ==
    /\ Returned /\ call.attr = "velocity"
    /\ call.reads = 1 /\ call.j = Len(records) /\ u = NoObj
    /\ num(m) > 1
    /\ ret = Current(m, "velocity")
    /\ ret.std # RatInt(0)

\* --------------------------------------------- claims on the configuration
\* The configuration CellHistory object c was constructed with.
ConfigOf(c) ==
    [PARAMS |-> c.params, END |-> c.end, path_out |-> c.data_out,
     logger |-> c.logger]
ReportedCell == call.op = "report_by_type" /\ ~IsExc(ret)

\* C29: report_by_type on a catalog works under the END, PARAMS, path_out
\* and logger of the CellHistory that created the catalog, whatever other
\* CellHistory objects the process has constructed before or after it: the
\* cycle reports are taken exactly when that object's END is not 0.
C29_OwnConfiguration ==
    ReportedCell =>
        /\ call.under = ConfigOf(cells[call.cell])
        /\ (ret[call.region].cycle_uncorrelated = None) <=> (cells[call.cell].end = 0)
        /\ (ret[call.region].cycle_correlated = None) <=> (cells[call.cell].end = 0)
\* What the class attributes give: a report works under the configuration
\* of the CellHistory constructed last.
C29_LastConfiguration ==
    ReportedCell =>
        /\ call.under = ConfigOf(cells[Len(cells)])
        /\ (ret[call.region].cycle_uncorrelated = None) <=> (cells[Len(cells)].end = 0)
\* The report of the object constructed last was taken after another
\* object of the other end was constructed before it.
C29_Witness ==
    /\ ReportedCell
    /\ Len(cells) = 2 /\ call.cell = 2
    /\ cells[1].end # cells[2].end

\* ------------------------------------- claims on the uncorrelated fractions
\* The three time fractions of the uncorrelated cycle report of the region.
Fractions == Res.cycle_uncorrelated.time_fraction
Defined(x) == ~isnan(x)

\* C30: the three time fractions report_cycle_uncorrelated returns are
\* numbers together or NaN together, and when they are numbers they sum
\* to 1.
C30_FractionsSumToOne ==
    CyclesTaken =>
        /\ DOMAIN Fractions = {"growth", "shrink", "pause"}
        /\ \/ AllNaN(Fractions)
           \/ /\ \A k \in DOMAIN Fractions : Defined(Fractions[k])
              /\ Sum3(Fractions.growth, Fractions.shrink, Fractions.pause)[2] > 0
              /\ Sum3(Fractions.growth, Fractions.shrink, Fractions.pause)[1]
                   = Sum3(Fractions.growth, Fractions.shrink, Fractions.pause)[2]
\* A region whose three fractions are numbers, not all the same.
C30_Witness ==
    /\ CyclesTaken
    /\ \A k \in DOMAIN Fractions : Defined(Fractions[k])
    /\ Fractions.growth # Fractions.pause
\* A region with a mean growth duration and no pause: every fraction is
\* NaN, that of growth too.
C30_WitnessUndefined ==
    /\ CyclesTaken
    /\ Defined(MeanDuration(Cat.grows))
    /\ isnan(MeanDuration(Cat.pauses))
    /\ isnan(Fractions.growth) /\ isnan(Fractions.shrink)

\* ------------------------------------------------ claims on the labels
\* The pattern codes of a sequence after the first, in order.
Suffix(self) ==
    CASE self.cls = "Single" -> <<self.a.to>>
      [] self.cls = "Double" -> <<self.a.im, self.a.to>>
      [] self.cls = "Triple" -> <<self.a.im1, self.a.im2, self.a.to>>
\* The long names of the codes joined by '+'.
RECURSIVE Joined(_)
Joined(codes) ==
    IF Len(codes) = 1 THEN name(codes[1])
    ELSE name(Head(codes)) \o "+" \o Joined(Tail(codes))
LabelledBy(xy, x) ==
    /\ xy.cls = x.cls
    /\ xy.a.fr = O
    /\ Suffix(xy) = Suffix(x)
    /\ NameOf(xy) = Joined(Suffix(x))

\* C24: A | B has the pattern of A with the undefined state in place of
\* the first, and name() joins the long names of the states after it:
\* 'shrink' for (o, s), 'growth+pause+shrink' for (o, g, p, s); operands
\* that end in the same states give the same label in either order.
C24_UnionLabel ==
    Composed /\ ~IsExc(u.xy) /\ ~IsExc(u.yx) =>
       /\ LabelledBy(u.xy, u.x)
       /\ LabelledBy(u.yx, u.y)
       /\ Suffix(u.x) = Suffix(u.y) =>
            /\ NameOf(u.xy) = NameOf(u.yx)
            /\ \A k \in {"fr", "im1", "im2", "to"} \cap DOMAIN u.xy.a :
                  u.xy.a[k] = u.yx.a[k]
\* Two sequences of different patterns that end in a shrink are merged.
C24_Witness ==
    /\ Composed
    /\ call.cls = "Single" /\ call.sx = <<"g","s">> /\ call.sy = <<"p","s">>
    /\ num(u.x) > 0 /\ num(u.y) > 0
    /\ NameOf(u.xy) = "shrink" /\ NameOf(u.yx) = "shrink"
    /\ NameOf(u.x) = "gs"
C24_WitnessTriple ==
    /\ Composed
    /\ call.cls = "Triple"
    /\ call.sx = <<"s","g","p","s">> /\ call.sy = <<"c","g","p","s">>
    /\ NameOf(u.xy) = "growth+pause+shrink"
    /\ NameOf(u.yx) = "growth+pause+shrink"
    /\ u.xy.a.fr = O

====
